---------------------------- MODULE Spec2Model ----------------------------
(***************************************************************************)
(* A model of the report generator's configuration layer over ReportLab:   *)
(* font path validation (fontspec.py), font registration                   *)
(* (register_fonts.py), image scaling (scale_image.py) and style           *)
(* construction (make_styles.py).                                          *)
(*                                                                         *)
(* The program is single-threaded and every function is a synchronous      *)
(* call, so each call is one action.  Each component has a specification   *)
(* of its own (SpecFontSpec, SpecFonts, SpecImage, SpecStyles); the        *)
(* variables of the other components stay at their idle values.            *)
(***************************************************************************)
EXTENDS Integers, Sequences, FiniteSets, TLC

VARIABLES
    fs,          \* the filesystem: what lies at each path of Nodes
    fsp,         \* the outcome of the last FontSpec(...) construction
    font_table,  \* ReportLab's process-wide font registry: name -> file
    rf,          \* the record of the last register_fonts call
    img,         \* a scaled_image_flowable call: its arguments and outcome
    heap,        \* the stylesheet and paragraph style objects, by identity
    ms,          \* a make_styles call: its arguments and outcome
    bs,          \* a build_story call: its arguments and outcome
    pdf          \* a build_pdf call: its arguments, its position and outcome

vars == <<fs, fsp, font_table, rf, img, heap, ms, bs, pdf>>

\* Python's None where a path or a name is expected: the empty sequence, so
\* that it compares with sequences.
NoPath == <<>>

(* ----------------------------------------------------------------------- *)
(* The filesystem.  A path is a sequence of segments; an absolute path     *)
(* starts with the root segment "/".                                       *)
(* ----------------------------------------------------------------------- *)
Root == <<"/">>
Home == <<"/", "home">>
Cwd  == <<"/", "work">>

P_F == <<"/", "home", "F.ttf">>
P_G == <<"/", "work", "G.OTF">>
P_N == <<"/", "work", "N.txt">>
P_D == <<"/", "work", "D.ttc">>

\* The paths whose content varies.
Nodes == {P_F, P_G, P_N, P_D}

\* "none": nothing there; "dir": a directory; "font": a regular file holding
\* a loadable font; "junk": a regular file TTFont cannot parse.
Kinds == {"none", "dir", "font", "junk"}

\* Directories that always exist.
Dirs == {Root, Home, Cwd}

\* A symbolic link (always present), which may dangle.
Symlinks == (<<"/", "work", "lnk.txt">> :> P_F)

\* Path.exists() and Path.is_file() on an absolute, resolved path.
PathExists(f, p) == p \in Dirs \/ (p \in Nodes /\ f[p] # "none")
PathIsFile(f, p) == p \in Nodes /\ f[p] \in {"font", "junk"}

\* Path.suffix of the last segment, and str.lower() of a suffix.
Suffix(p) ==
    LET seg == IF p = <<>> THEN "" ELSE p[Len(p)]
    IN  CASE seg = "F.ttf"   -> ".ttf"
          [] seg = "G.OTF"   -> ".OTF"
          [] seg = "N.txt"   -> ".txt"
          [] seg = "D.ttc"   -> ".ttc"
          [] seg = "lnk.txt" -> ".txt"
          [] OTHER           -> ""

Lower(s) == IF s = ".OTF" THEN ".otf" ELSE s

\* Path.expanduser(): a leading "~" becomes the home directory.
ExpandUser(p) == IF p # <<>> /\ Head(p) = "~" THEN Home \o Tail(p) ELSE p

\* One segment of Path.resolve(): ".." steps up (never above the root), "."
\* stays, and a prefix that is a symbolic link is replaced by its target.
ResolveStep(acc, seg) ==
    IF seg = ".." THEN (IF Len(acc) > 1 THEN SubSeq(acc, 1, Len(acc) - 1) ELSE acc)
    ELSE IF seg = "." THEN acc
    ELSE LET q == Append(acc, seg)
         IN  IF q \in DOMAIN Symlinks THEN Symlinks[q] ELSE q

RECURSIVE ResolveFrom(_, _)
ResolveFrom(acc, rest) ==
    IF rest = <<>> THEN acc
    ELSE ResolveFrom(ResolveStep(acc, Head(rest)), Tail(rest))

\* Path.resolve(): made absolute against the working directory, then
\* normalised segment by segment.
Resolve(p) ==
    IF p # <<>> /\ Head(p) = "/" THEN ResolveFrom(Root, Tail(p))
    ELSE ResolveFrom(Cwd, p)

(* ----------------------------------------------------------------------- *)
(* fontspec.py: FontSpec                                                   *)
(* ----------------------------------------------------------------------- *)
ALLOWED_EXTENSIONS == {".ttf", ".otf", ".ttc"}

MinNameLen == 5

\* validate_and_normalize_path with the is_file() test left out.
validate_no_is_file(f, v) ==
    LET normalized == Resolve(ExpandUser(v))
        ext == Lower(Suffix(normalized))
    IN  IF ~PathExists(f, normalized)
        THEN [ok |-> FALSE, err |-> "does_not_exist", arg |-> normalized]
        ELSE IF ext \notin ALLOWED_EXTENSIONS
        THEN [ok |-> FALSE, err |-> "unsupported_extension", arg |-> <<ext>>]
        ELSE [ok |-> TRUE, path |-> normalized]

\* FontSpec._validate_and_normalize_path: the normalised path, or the
\* ValueError it raises (its kind and what the message names).
validate_and_normalize_path(f, v) ==
    LET normalized == Resolve(ExpandUser(v))
        ext == Lower(Suffix(normalized))
    IN  IF ~PathExists(f, normalized)
        THEN [ok |-> FALSE, err |-> "does_not_exist", arg |-> normalized]
        ELSE IF ~PathIsFile(f, normalized)
        THEN [ok |-> FALSE, err |-> "not_a_file", arg |-> normalized]
        ELSE IF ext \notin ALLOWED_EXTENSIONS
        THEN [ok |-> FALSE, err |-> "unsupported_extension", arg |-> <<ext>>]
        ELSE [ok |-> TRUE, path |-> normalized]

\* FontSpec(name=..., file_path=...): pydantic validates every field and
\* raises one ValidationError listing each field's error.
FontSpecNew(f, name, raw) ==
    LET pv == validate_and_normalize_path(f, raw)
        nameErrs == IF Len(name) < MinNameLen
                    THEN {[loc |-> "name", err |-> "string_too_short", arg |-> name]}
                    ELSE {}
        pathErrs == IF pv.ok THEN {}
                    ELSE {[loc |-> "file_path", err |-> pv.err, arg |-> pv.arg]}
        errs == nameErrs \cup pathErrs
    IN  IF errs = {}
        THEN [state |-> "ok", name |-> name, raw |-> raw,
              file_path |-> pv.path, errors |-> {}]
        ELSE [state |-> "error", name |-> name, raw |-> raw,
              file_path |-> NoPath, errors |-> errs]

\* Font names, as character sequences (min_length counts characters).
N_Dummy == <<"D", "u", "m", "m", "y">>
N_Inter == <<"I", "n", "t", "e", "r">>
N_Abcd  == <<"A", "b", "c", "d">>
Names == {N_Dummy, N_Inter, N_Abcd}

\* The raw paths a caller passes.
RawPaths == {
    <<"~", "F.ttf">>,
    <<"fonts", "..", "G.OTF">>,
    <<"/", "work", ".", "N.txt">>,
    <<"D.ttc">>,
    <<"/", "work", "lnk.txt">>,
    <<"~", "..", "work">>,
    <<"/", "home", "gone", "F.ttf">> }

FspIdle == [state |-> "none", name |-> NoPath, raw |-> NoPath,
            file_path |-> NoPath, errors |-> {}]

\* A caller constructs a FontSpec.
Construct(name, raw) ==
    /\ fsp' = FontSpecNew(fs, name, raw)
    /\ UNCHANGED <<fs, font_table, rf, img, heap, ms, bs, pdf>>

(* ----------------------------------------------------------------------- *)
(* register_fonts.py                                                       *)
(* ----------------------------------------------------------------------- *)

\* Names long enough for a FontSpec, and the font files the specs point to.
FontNames == {n \in Names : Len(n) >= MinNameLen}
FontNodes == {P_F, P_G}

\* The FontSpec objects that exist: each was constructed, successfully, at a
\* time when the filesystem let it validate.  A FontSpec is frozen, so it
\* outlives its file.
FontSpecs ==
    {[name |-> r.name, file_path |-> r.file_path] :
        r \in {x \in {FontSpecNew(f, n, p) :
                        f \in [Nodes -> Kinds], n \in Names, p \in RawPaths} :
                  x.state = "ok" /\ x.file_path \in FontNodes}}

TableEmpty == [n \in FontNames |-> NoPath]

RfIdle == [state |-> "idle", fonts |-> <<>>, before |-> TableEmpty,
           log |-> <<>>, calls |-> <<>>, again |-> FALSE, prev_ok |-> FALSE]

\* pdfmetrics.getFont(name): found, or KeyError.
getFont(tbl, name) == tbl[name] # NoPath

\* TTFont(name, path) parses the file; it raises unless the file is there
\* and holds a font.
TTFontLoads(f, path) == path \in Nodes /\ f[path] = "font"

LogRec(level, what, name) == [level |-> level, what |-> what, name |-> name]

\* One iteration of the loop of register_fonts with the name marked as seen
\* only after a successful registration.
RegisterStepSeenLate(f, acc, spec) ==
    IF spec.name \in acc.seen
    THEN [acc EXCEPT !.log = Append(@, LogRec("warning", "duplicate", spec.name))]
    ELSE IF getFont(acc.tbl, spec.name)
         THEN [acc EXCEPT !.log = Append(@, LogRec("debug", "already_registered", spec.name))]
         ELSE IF TTFontLoads(f, spec.file_path)
              THEN [acc EXCEPT !.seen = @ \cup {spec.name},
                               !.tbl[spec.name] = spec.file_path,
                               !.calls = Append(@, [name |-> spec.name,
                                                    path |-> spec.file_path, ok |-> TRUE]),
                               !.log = Append(@, LogRec("info", "registered", spec.name))]
              ELSE [acc EXCEPT !.calls = Append(@, [name |-> spec.name,
                                                    path |-> spec.file_path, ok |-> FALSE]),
                               !.log = Append(@, LogRec("error", "failed", spec.name))]

\* One iteration of the loop of register_fonts without the getFont test.
RegisterStepNoLookup(f, acc, spec) ==
    IF spec.name \in acc.seen
    THEN [acc EXCEPT !.log = Append(@, LogRec("warning", "duplicate", spec.name))]
    ELSE LET acc1 == [acc EXCEPT !.seen = @ \cup {spec.name}]
         IN  IF TTFontLoads(f, spec.file_path)
             THEN [acc1 EXCEPT !.tbl[spec.name] = spec.file_path,
                               !.calls = Append(@, [name |-> spec.name,
                                                    path |-> spec.file_path, ok |-> TRUE]),
                               !.log = Append(@, LogRec("info", "registered", spec.name))]
             ELSE [acc1 EXCEPT !.calls = Append(@, [name |-> spec.name,
                                                    path |-> spec.file_path, ok |-> FALSE]),
                               !.log = Append(@, LogRec("error", "failed", spec.name))]

\* One iteration of the loop of register_fonts that stops at a failure: the
\* exception is logged and every later spec is left out.
RegisterStepAbort(f, acc, spec) ==
    IF acc.aborted THEN acc
    ELSE IF spec.name \in acc.seen
    THEN [acc EXCEPT !.log = Append(@, LogRec("warning", "duplicate", spec.name))]
    ELSE LET acc1 == [acc EXCEPT !.seen = @ \cup {spec.name}]
         IN  IF getFont(acc.tbl, spec.name)
             THEN [acc1 EXCEPT !.log = Append(@, LogRec("debug", "already_registered", spec.name))]
             ELSE IF TTFontLoads(f, spec.file_path)
             THEN [acc1 EXCEPT !.tbl[spec.name] = spec.file_path,
                               !.calls = Append(@, [name |-> spec.name,
                                                    path |-> spec.file_path, ok |-> TRUE]),
                               !.log = Append(@, LogRec("info", "registered", spec.name))]
             ELSE [acc1 EXCEPT !.calls = Append(@, [name |-> spec.name,
                                                    path |-> spec.file_path, ok |-> FALSE]),
                               !.log = Append(@, LogRec("error", "failed", spec.name)),
                               !.aborted = TRUE]

\* One iteration of the loop of register_fonts (lines 27-53): a name seen
\* earlier in this call is skipped with a warning; otherwise the name is
\* marked seen, a name the engine already knows is skipped, and the font is
\* loaded and registered, a failure being logged and swallowed.
RegisterStep(f, acc, spec) ==
    IF spec.name \in acc.seen
    THEN [acc EXCEPT !.log = Append(@, LogRec("warning", "duplicate", spec.name))]
    ELSE LET acc1 == [acc EXCEPT !.seen = @ \cup {spec.name}]
         IN  IF getFont(acc.tbl, spec.name)
             THEN [acc1 EXCEPT !.log = Append(@, LogRec("debug", "already_registered", spec.name))]
             ELSE IF TTFontLoads(f, spec.file_path)
             THEN [acc1 EXCEPT !.tbl[spec.name] = spec.file_path,
                               !.calls = Append(@, [name |-> spec.name,
                                                    path |-> spec.file_path, ok |-> TRUE]),
                               !.log = Append(@, LogRec("info", "registered", spec.name))]
             ELSE [acc1 EXCEPT !.calls = Append(@, [name |-> spec.name,
                                                    path |-> spec.file_path, ok |-> FALSE]),
                               !.log = Append(@, LogRec("error", "failed", spec.name))]

RECURSIVE RegisterLoop(_, _, _)
RegisterLoop(f, acc, fonts) ==
    IF fonts = <<>> THEN acc
    ELSE RegisterLoop(f, RegisterStep(f, acc, Head(fonts)), Tail(fonts))

\* register_fonts(fonts): the whole call, from the table and the filesystem
\* it finds.  It has no raise of its own and catches every exception of the
\* registration, so it always returns.
register_fonts(f, tbl, fonts) ==
    RegisterLoop(f, [tbl |-> tbl, seen |-> {}, log |-> <<>>, calls |-> <<>>,
                     aborted |-> FALSE], fonts)

MaxFonts == 2

FontLists == UNION {[1..k -> FontSpecs] : k \in 0..MaxFonts}

\* A caller calls register_fonts.  "again" records that the input is that of
\* the call before, "prev_ok" that no registration of that call failed.
RegisterFonts(fonts) ==
    LET r == register_fonts(fs, font_table, fonts)
    IN  /\ font_table' = r.tbl
        /\ rf' = [state |-> IF r.aborted THEN "raised" ELSE "returned", fonts |-> fonts, before |-> font_table,
                  log |-> r.log, calls |-> r.calls,
                  again |-> (rf.state # "idle" /\ rf.fonts = fonts),
                  prev_ok |-> (rf.state = "returned"
                               /\ \A i \in 1..Len(rf.calls) : rf.calls[i].ok)]
        /\ UNCHANGED <<fs, fsp, img, heap, ms, bs, pdf>>

\* The environment changes a font file: it is deleted, or written anew.
FsChange(p, k) ==
    /\ fs[p] # k
    /\ fs' = [fs EXCEPT ![p] = k]
    /\ UNCHANGED <<fsp, font_table, rf, img, heap, ms, bs, pdf>>

(* ----------------------------------------------------------------------- *)
(* Floating point.  Python's float is an IEEE double: 53 significant bits,  *)
(* every operation rounded to the nearest value, ties to the even           *)
(* mantissa.  The model keeps the rounding rule and narrows the mantissa    *)
(* to Precision bits; the integers in play (pixel counts, heights and       *)
(* their products) stay below 2^Precision, as real ones stay below 2^53,    *)
(* so an integer is never rounded.  A float is m * 2^e with m odd (or 0).   *)
(* ----------------------------------------------------------------------- *)
Precision == 10

RECURSIVE Pow2(_)
Pow2(k) == IF k = 0 THEN 1 ELSE 2 * Pow2(k - 1)

\* The mantissa lies in [MantissaMin, MantissaMax) before it is rounded.
MantissaMax == Pow2(Precision)
MantissaMin == Pow2(Precision - 1)

RECURSIVE Canon(_, _)
Canon(m, e) ==
    IF m = 0 THEN [m |-> 0, e |-> 0]
    ELSE IF m % 2 = 0 THEN Canon(m \div 2, e + 1)
    ELSE [m |-> m, e |-> e]

\* (n / d) * 2^e for n, d > 0, rounded to Precision significant bits.
RECURSIVE RoundScaled(_, _, _)
RoundScaled(n, d, e) ==
    IF n >= d * MantissaMax THEN RoundScaled(n, 2 * d, e + 1)
    ELSE IF n < d * MantissaMin THEN RoundScaled(2 * n, d, e - 1)
    ELSE LET q == n \div d
             r == n % d
             up == 2 * r > d \/ (2 * r = d /\ q % 2 = 1)
         IN  Canon(IF up THEN q + 1 ELSE q, e)

\* float(n) for an integer n >= 0.
FloatOfInt(n) == IF n = 0 THEN Canon(0, 0) ELSE RoundScaled(n, 1, 0)

\* x / y and x * y on floats (x >= 0, y > 0).
FDiv(x, y) == IF x.m = 0 THEN Canon(0, 0) ELSE RoundScaled(x.m, y.m, x.e - y.e)
FMul(x, y) == IF x.m = 0 \/ y.m = 0 THEN Canon(0, 0)
              ELSE RoundScaled(x.m * y.m, 1, x.e + y.e)

(* ----------------------------------------------------------------------- *)
(* scale_image.py                                                          *)
(* ----------------------------------------------------------------------- *)
MaxDim == 20
MaxHeight == 50

\* What lies at img_path: nothing; a file ImageReader cannot decode; an
\* image whose getSize() is (iw, ih).
ImageFiles ==
    {[exists |-> FALSE, decodes |-> FALSE, iw |-> 0, ih |-> 0],
     [exists |-> TRUE, decodes |-> FALSE, iw |-> 0, ih |-> 0]}
    \cup {[exists |-> TRUE, decodes |-> TRUE, iw |-> w, ih |-> h] :
             w \in -1..MaxDim, h \in -1..MaxDim}

MaxHeights == -1..MaxHeight

\* None where a flowable is expected (a record, to compare with flowables).
NoFlowable == [kind |-> "None"]

ImgNone(level, what) == [ret |-> NoFlowable, raised |-> FALSE, log |-> <<[level |-> level, what |-> what]>>]

ImageOf(width, height) == [kind |-> "Image", width |-> width, height |-> height]

\* scaled_image_flowable that scales whenever it is given an image, as if
\* upscale were always true.
scaled_image_always_scales(file, max_height, upscale) ==
    IF max_height <= 0 THEN ImgNone("error", "invalid_max_height")
    ELSE IF ~file.exists THEN ImgNone("warning", "not_found")
    ELSE IF ~file.decodes THEN ImgNone("exception", "read_failed")
    ELSE IF file.iw <= 0 \/ file.ih <= 0 THEN ImgNone("error", "invalid_dimensions")
    ELSE LET scale == FDiv(FloatOfInt(max_height), FloatOfInt(file.ih))
         IN  [ret |-> ImageOf(FMul(FloatOfInt(file.iw), scale),
                              FMul(FloatOfInt(file.ih), scale)),
              raised |-> FALSE, log |-> <<[level |-> "debug", what |-> "created"]>>]

\* scaled_image_flowable that rejects only a negative max_height.
scaled_image_zero_height(file, max_height, upscale) ==
    IF max_height < 0 THEN ImgNone("error", "invalid_max_height")
    ELSE IF ~file.exists THEN ImgNone("warning", "not_found")
    ELSE IF ~file.decodes THEN ImgNone("exception", "read_failed")
    ELSE IF file.iw <= 0 \/ file.ih <= 0 THEN ImgNone("error", "invalid_dimensions")
    ELSE LET scale == IF ~upscale /\ file.ih < max_height THEN FloatOfInt(1)
                      ELSE FDiv(FloatOfInt(max_height), FloatOfInt(file.ih))
         IN  [ret |-> ImageOf(FMul(FloatOfInt(file.iw), scale),
                              FMul(FloatOfInt(file.ih), scale)),
              raised |-> FALSE, log |-> <<[level |-> "debug", what |-> "created"]>>]

\* scaled_image_flowable(img_path, max_height=..., upscale=...): None with
\* a log record, or the Image flowable with its width and height.  Nothing
\* is raised: the only call that can raise, the image reader, is caught.
scaled_image_flowable(file, max_height, upscale) ==
    IF max_height <= 0 THEN ImgNone("error", "invalid_max_height")
    ELSE IF ~file.exists THEN ImgNone("warning", "not_found")
    ELSE IF ~file.decodes THEN ImgNone("exception", "read_failed")
    ELSE IF file.iw <= 0 \/ file.ih <= 0 THEN ImgNone("error", "invalid_dimensions")
    ELSE LET scale == IF ~upscale /\ file.ih < max_height THEN FloatOfInt(1)
                      ELSE FDiv(FloatOfInt(max_height), FloatOfInt(file.ih))
             new_width == FMul(FloatOfInt(file.iw), scale)
             new_height == FMul(FloatOfInt(file.ih), scale)
         IN  [ret |-> ImageOf(new_width, new_height),
              raised |-> FALSE, log |-> <<[level |-> "debug", what |-> "created"]>>]

ImgIdle == [state |-> "idle",
            file |-> [exists |-> FALSE, decodes |-> FALSE, iw |-> 0, ih |-> 0], max_height |-> 0, upscale |-> FALSE,
            ret |-> NoFlowable, log |-> <<>>]

\* The call returns.
ScaledImageFlowable ==
    /\ img.state = "called"
    /\ LET r == scaled_image_flowable(img.file, img.max_height, img.upscale)
       IN  img' = [img EXCEPT !.state = IF r.raised THEN "raised" ELSE "returned",
                              !.ret = r.ret, !.log = r.log]
    /\ UNCHANGED <<fs, fsp, font_table, rf, heap, ms, bs, pdf>>

(* ----------------------------------------------------------------------- *)
(* make_styles.py.  Stylesheets and paragraph styles are Python objects:   *)
(* the heap maps a stylesheet's identity to its two registries and a       *)
(* style's identity to its fields, so that two names for one object and a  *)
(* copy of an object are different things.                                 *)
(* ----------------------------------------------------------------------- *)

\* A Python value of a style attribute or of an override: t is its type, n
\* its number (an int, a whole float, a bool as 0 or 1, a colour as
\* 0xRRGGBB) and s the characters of a str.
VInt(n)     == [t |-> "int", n |-> n, s |-> <<>>]
VFloat(n)   == [t |-> "float", n |-> n, s |-> <<>>]
VStr(s)     == [t |-> "str", n |-> 0, s |-> s]
VColor(rgb) == [t |-> "Color", n |-> rgb, s |-> <<>>]
VNone       == [t |-> "NoneType", n |-> 0, s |-> <<>>]

\* float("nan"): a float that is no number, marked in s.
VNaN        == [t |-> "float", n |-> 0, s |-> <<"nan">>]
IsNaN(a)    == a.t = "float" /\ a.s # <<>>

\* Python's ==: numbers compare by value across int, float and bool, and a
\* NaN equals nothing, itself included; every other pair is equal when type
\* and content are.
PyEq(a, b) ==
    IF a.t \in {"int", "float", "bool"} /\ b.t \in {"int", "float", "bool"}
    THEN a.n = b.n /\ ~IsNaN(a) /\ ~IsNaN(b)
    ELSE a = b

\* isinstance(value, types); bool is a subclass of int.
isinstance(value, types) ==
    \/ value.t \in types
    \/ value.t = "bool" /\ "int" \in types

\* TA_LEFT, TA_CENTER, TA_RIGHT, TA_JUSTIFY
ALLOWED_ALIGNMENTS == {0, 1, 2, 4}

_ALLOWED_ATTRS ==
    [k \in {"fontName", "wordWrap"} |-> {"str"}]
    @@ [k \in {"textColor", "backColor"} |-> {"Color", "str"}]
    @@ [k \in {"alignment"} |-> {"int"}]
    @@ [k \in {"fontSize", "leading", "spaceBefore", "spaceAfter", "leftIndent",
               "rightIndent", "firstLineIndent", "kerning", "tracking",
               "underlineWidth", "underlineOffset"} |-> {"int", "float"}]

\* int(digits, 16) as colors.HexColor calls it on the characters after '#'.
HexDigit ==
    ("0" :> 0) @@ ("1" :> 1) @@ ("2" :> 2) @@ ("3" :> 3) @@ ("4" :> 4)
    @@ ("5" :> 5) @@ ("6" :> 6) @@ ("7" :> 7) @@ ("8" :> 8) @@ ("9" :> 9)
    @@ ("a" :> 10) @@ ("b" :> 11) @@ ("c" :> 12) @@ ("d" :> 13)
    @@ ("e" :> 14) @@ ("f" :> 15)
    @@ ("A" :> 10) @@ ("B" :> 11) @@ ("C" :> 12) @@ ("D" :> 13)
    @@ ("E" :> 14) @@ ("F" :> 15)

RECURSIVE ParseHex(_, _)
ParseHex(digits, acc) ==
    IF digits = <<>> THEN acc
    ELSE ParseHex(Tail(digits), 16 * acc + HexDigit[Head(digits)])

\* colors.HexColor(hex_str) for a string that starts with '#': a ValueError
\* unless hex digits follow, else the colour of the low 24 bits.
HexColor(hex_str) ==
    LET digits == Tail(hex_str)
    IN  IF digits = <<>> \/ \E i \in 1..Len(digits) : digits[i] \notin DOMAIN HexDigit
        THEN [ok |-> FALSE, color |-> VNone]
        ELSE [ok |-> TRUE, color |-> VColor(ParseHex(digits, 0) % 16777216)]

\* _normalize_value that parses a colour string as it is given, without
\* prefixing '#'; HexColor rejects a string that does not start with it.
normalize_value_no_prefix(key, value) ==
    IF value.t = "NoneType" THEN value
    ELSE IF key \in {"textColor", "backColor"} /\ value.t = "str"
    THEN LET c == IF value.s # <<>> /\ Head(value.s) = "#"
                  THEN HexColor(value.s) ELSE [ok |-> FALSE, color |-> VNone]
         IN  IF c.ok THEN c.color ELSE value
    ELSE value

_normalize_value(key, value) ==
    IF value.t = "NoneType" THEN value
    ELSE IF key \in {"textColor", "backColor"} /\ value.t = "str"
    THEN LET hex_str == IF value.s # <<>> /\ Head(value.s) = "#"
                        THEN value.s ELSE <<"#">> \o value.s
             c == HexColor(hex_str)
         IN  IF c.ok THEN c.color ELSE value
    ELSE value

\* None where a style object is expected, and where a stylesheet is.
NoRef == <<>>
NoSheet == "None"

EmptyMap == [x \in {} |-> x]
HeapEmpty == [sheets |-> EmptyMap, styles |-> EmptyMap]

S_Helvetica == <<"H", "e", "l", "v", "e", "t", "i", "c", "a">>
S_HelveticaBold == S_Helvetica \o <<"-", "B", "o", "l", "d">>
S_big == <<"b", "i", "g">>

\* The attributes the model keeps of the ones a ParagraphStyle has, with
\* ReportLab's defaults.
NormalAttrs ==
    [fontName |-> VStr(S_Helvetica), fontSize |-> VInt(10), leading |-> VInt(12),
     textColor |-> VColor(0), alignment |-> VInt(0), spaceBefore |-> VInt(0)]

\* What getSampleStyleSheet() builds, cut down to three styles: by name the
\* parent and the attributes of each style, by alias the style it names.
SampleStyles ==
    [byName |->
        ("Normal" :> [parent |-> "", attrs |-> NormalAttrs])
        @@ ("BodyText" :> [parent |-> "Normal",
                           attrs |-> [NormalAttrs EXCEPT !.spaceBefore = VInt(6)]])
        @@ ("Title" :> [parent |-> "Normal",
                        attrs |-> [NormalAttrs EXCEPT
                                      !.fontName = VStr(S_HelveticaBold),
                                      !.fontSize = VInt(18),
                                      !.leading = VInt(22),
                                      !.alignment = VInt(1)]]),
     byAlias |-> ("title" :> "Title")]

\* A stylesheet a caller built: no Title, a Custom style, no alias.
CallerStyles ==
    [byName |->
        ("Normal" :> [parent |-> "",
                      attrs |-> [NormalAttrs EXCEPT !.fontSize = VInt(22),
                                                    !.alignment = VInt(2)]])
        @@ ("Custom" :> [parent |-> "Normal",
                         attrs |-> [NormalAttrs EXCEPT !.fontSize = VInt(22),
                                                       !.alignment = VInt(2),
                                                       !.textColor = VColor(31)]]),
     byAlias |-> EmptyMap]

\* A new StyleSheet1 object ss holding new style objects <<ss, name>>.
NewStyleSheet(h, ss, content) ==
    LET refs == {<<ss, n>> : n \in DOMAIN content.byName}
        sheet == [byName |-> [n \in DOMAIN content.byName |-> <<ss, n>>],
                  byAlias |-> [a \in DOMAIN content.byAlias |->
                                  <<ss, content.byAlias[a]>>]]
        objs == [r \in refs |->
                    LET d == content.byName[r[2]]
                    IN  [name |-> r[2],
                         parent |-> IF d.parent = "" THEN NoRef ELSE <<ss, d.parent>>,
                         attrs |-> d.attrs]]
    IN  [heap |-> [sheets |-> (ss :> sheet) @@ h.sheets,
                   styles |-> objs @@ h.styles],
         ref |-> ss]

getSampleStyleSheet(h) == NewStyleSheet(h, "sample", SampleStyles)

\* The style objects a stylesheet reaches: its registries' and their parents.
RECURSIVE Reach(_, _)
Reach(h, refs) ==
    LET more == (refs \cup {h.styles[r].parent : r \in refs}) \ {NoRef}
    IN  IF more = refs THEN refs ELSE Reach(h, more)

SheetRefs(h, ss) ==
    LET sheet == h.sheets[ss]
    IN  Reach(h, {sheet.byName[n] : n \in DOMAIN sheet.byName}
                 \cup {sheet.byAlias[a] : a \in DOMAIN sheet.byAlias})

\* _clone_stylesheet handing back its argument: no copy is made.
clone_stylesheet_shared(h, ss) == [heap |-> h, ref |-> ss]

\* copy.deepcopy: a new stylesheet ("clone", or "clone2" when the heap has a
\* "clone" already) whose registries and parent links point to new copies of
\* the style objects.
_clone_stylesheet(h, ss) ==
    LET new == IF "clone" \in DOMAIN h.sheets THEN "clone2" ELSE "clone"
        Copy(r) == IF r = NoRef THEN NoRef ELSE <<new, r[2]>>
        old == SheetRefs(h, ss)
        sheet == h.sheets[ss]
        objs == [c \in {Copy(r) : r \in old} |->
                    LET r == CHOOSE r \in old : Copy(r) = c
                    IN  [h.styles[r] EXCEPT !.parent = Copy(@)]]
    IN  [heap |-> [sheets |-> (new :> [byName |-> [n \in DOMAIN sheet.byName |->
                                                          Copy(sheet.byName[n])],
                                           byAlias |-> [a \in DOMAIN sheet.byAlias |->
                                                           Copy(sheet.byAlias[a])]])
                              @@ h.sheets,
                   styles |-> objs @@ h.styles],
         ref |-> new]

\* styles[key]: StyleSheet1.__getitem__ looks among the aliases, then among
\* the names, and raises KeyError when the key is in neither.
SheetGet(h, ss, key) ==
    LET sheet == h.sheets[ss]
    IN  IF key \in DOMAIN sheet.byAlias THEN [ok |-> TRUE, ref |-> sheet.byAlias[key]]
        ELSE IF key \in DOMAIN sheet.byName THEN [ok |-> TRUE, ref |-> sheet.byName[key]]
        ELSE [ok |-> FALSE, ref |-> NoRef]

\* styles.add(style): StyleSheet1.add raises KeyError when the style's name
\* is already a name or an alias of the stylesheet.
SheetAdd(h, ss, ref) ==
    LET sheet == h.sheets[ss]
        key == h.styles[ref].name
    IN  IF key \in DOMAIN sheet.byName \/ key \in DOMAIN sheet.byAlias
        THEN [ok |-> FALSE, heap |-> h]
        ELSE [ok |-> TRUE,
              heap |-> [h EXCEPT !.sheets[ss].byName = (key :> ref) @@ @]]

\* ParagraphStyle(name, parent=parent): a new object that starts with the
\* parent's attributes as they are now.
ParagraphStyle(h, ss, name, parent) ==
    LET ref == <<ss, name>>
    IN  [heap |-> [h EXCEPT !.styles =
                      (ref :> [name |-> name, parent |-> parent,
                               attrs |-> h.styles[parent].attrs]) @@ @],
         ref |-> ref]

\* getattr(style, key, None) and setattr(style, key, value)
getattr(h, ref, key) ==
    IF key \in DOMAIN h.styles[ref].attrs THEN h.styles[ref].attrs[key] ELSE VNone

setattr(h, ref, key, value) ==
    [h EXCEPT !.styles[ref].attrs = (key :> value) @@ @]

StyleLog(level, what, style, key) ==
    [level |-> level, what |-> what, style |-> style, key |-> key]

\* One pass of the loop of _apply_style_overrides with the type check and
\* the alignment check left out.
ApplyOverrideUnchecked(acc, ref, e) ==
    LET name == acc.heap.styles[ref].name
        value == _normalize_value(e.key, e.value)
        current == getattr(acc.heap, ref, e.key)
    IN  IF e.key \notin DOMAIN _ALLOWED_ATTRS
        THEN [acc EXCEPT !.log = Append(@, StyleLog("warning", "not_allowed", name, e.key))]
        ELSE IF PyEq(current, value)
        THEN [acc EXCEPT !.log = Append(@, StyleLog("debug", "already_set", name, e.key))]
        ELSE [heap |-> setattr(acc.heap, ref, e.key, value),
              log |-> Append(acc.log, StyleLog("info", "set", name, e.key))]

\* One pass of the loop of _apply_style_overrides that assigns without
\* comparing with the current value.
ApplyOverrideAlwaysSet(acc, ref, e) ==
    LET name == acc.heap.styles[ref].name
        value == _normalize_value(e.key, e.value)
    IN  IF e.key \notin DOMAIN _ALLOWED_ATTRS
        THEN [acc EXCEPT !.log = Append(@, StyleLog("warning", "not_allowed", name, e.key))]
        ELSE IF ~isinstance(value, _ALLOWED_ATTRS[e.key])
        THEN [acc EXCEPT !.log = Append(@, StyleLog("warning", "invalid_type", name, e.key))]
        ELSE IF e.key = "alignment" /\ isinstance(value, {"int"})
                /\ value.n \notin ALLOWED_ALIGNMENTS
        THEN [acc EXCEPT !.log = Append(@, StyleLog("warning", "alignment_not_allowed",
                                                    name, e.key))]
        ELSE [heap |-> setattr(acc.heap, ref, e.key, value),
              log |-> Append(acc.log, StyleLog("info", "set", name, e.key))]

\* One pass of the loop of _apply_style_overrides, over the entry e of attrs.
ApplyOverride(acc, ref, e) ==
    LET name == acc.heap.styles[ref].name
        value == _normalize_value(e.key, e.value)
        current == getattr(acc.heap, ref, e.key)
    IN  IF e.key \notin DOMAIN _ALLOWED_ATTRS
        THEN [acc EXCEPT !.log = Append(@, StyleLog("warning", "not_allowed", name, e.key))]
        ELSE IF ~isinstance(value, _ALLOWED_ATTRS[e.key])
        THEN [acc EXCEPT !.log = Append(@, StyleLog("warning", "invalid_type", name, e.key))]
        ELSE IF e.key = "alignment" /\ isinstance(value, {"int"})
                /\ value.n \notin ALLOWED_ALIGNMENTS
        THEN [acc EXCEPT !.log = Append(@, StyleLog("warning", "alignment_not_allowed",
                                                    name, e.key))]
        ELSE IF PyEq(current, value)
        THEN [acc EXCEPT !.log = Append(@, StyleLog("debug", "already_set", name, e.key))]
        ELSE [heap |-> setattr(acc.heap, ref, e.key, value),
              log |-> Append(acc.log, StyleLog("info", "set", name, e.key))]

RECURSIVE ApplyLoop(_, _, _)
ApplyLoop(acc, ref, attrs) ==
    IF attrs = <<>> THEN acc
    ELSE ApplyLoop(ApplyOverride(acc, ref, Head(attrs)), ref, Tail(attrs))

_apply_style_overrides(h, log, ref, attrs) ==
    ApplyLoop([heap |-> h, log |-> log], ref, attrs)

\* One pass of the loop of make_styles, over the entry e of overrides; a
\* KeyError ends the call.
StyleStep(acc, ss, e, create_missing, parent_for_new) ==
    LET Apply(h, log) ==
            LET r == _apply_style_overrides(h, log, SheetGet(h, ss, e.style).ref, e.attrs)
            IN  [heap |-> r.heap, log |-> r.log, raised |-> FALSE, exc |-> ""]
    IN  IF e.style \notin DOMAIN acc.heap.sheets[ss].byName
        THEN IF ~create_missing
             THEN [acc EXCEPT !.log = Append(@, StyleLog("warning", "style_not_found",
                                                         e.style, ""))]
             ELSE LET parent == SheetGet(acc.heap, ss, parent_for_new)
                  IN  IF ~parent.ok
                      THEN [acc EXCEPT !.raised = TRUE, !.exc = "KeyError"]
                      ELSE LET new_style == ParagraphStyle(acc.heap, ss, e.style, parent.ref)
                               added == SheetAdd(new_style.heap, ss, new_style.ref)
                           IN  IF ~added.ok
                               THEN [heap |-> new_style.heap, log |-> acc.log,
                                     raised |-> TRUE, exc |-> "KeyError"]
                               ELSE Apply(added.heap,
                                          Append(acc.log, StyleLog("info", "created",
                                                                   e.style, "")))
        ELSE Apply(acc.heap, acc.log)

RECURSIVE StyleLoop(_, _, _, _, _)
StyleLoop(acc, ss, overrides, create_missing, parent_for_new) ==
    IF overrides = <<>> \/ acc.raised THEN acc
    ELSE StyleLoop(StyleStep(acc, ss, Head(overrides), create_missing, parent_for_new),
                   ss, Tail(overrides), create_missing, parent_for_new)

\* make_styles(base=, overrides=, create_missing=, parent_for_new=) on the
\* heap h: the heap it leaves, the stylesheet it returns or the exception it
\* raises, and what it logged.  A dict is the sequence of its entries in
\* insertion order.
make_styles(h, base, overrides, create_missing, parent_for_new) ==
    LET styles_in == IF base # NoSheet THEN [heap |-> h, ref |-> base]
                     ELSE getSampleStyleSheet(h)
        styles == _clone_stylesheet(styles_in.heap, styles_in.ref)
    IN  IF overrides = <<>>
        THEN [heap |-> styles.heap, ret |-> styles.ref, raised |-> FALSE,
              exc |-> "", log |-> <<>>]
        ELSE LET r == StyleLoop([heap |-> styles.heap, log |-> <<>>,
                                 raised |-> FALSE, exc |-> ""],
                                styles.ref, overrides, create_missing, parent_for_new)
             IN  [heap |-> r.heap, ret |-> IF r.raised THEN NoSheet ELSE styles.ref,
                  raised |-> r.raised, exc |-> r.exc, log |-> r.log]

\* The style names and the attribute entries override maps are made of.
OvNames == {"Title", "Custom", "title"}

OvAttrs ==
    {[key |-> "fontSize", value |-> VInt(22)],
     [key |-> "fontSize", value |-> VFloat(18)],
     [key |-> "fontSize", value |-> VStr(S_big)],
     [key |-> "leading", value |-> VNaN],
     [key |-> "alignment", value |-> VInt(2)],
     [key |-> "alignment", value |-> VInt(999)],
     [key |-> "notARealAttr", value |-> VInt(123)],
     [key |-> "textColor", value |-> VStr(<<"#", "1", "f">>)],
     [key |-> "textColor", value |-> VStr(<<"g">>)],
     [key |-> "backColor", value |-> VStr(<<"1", "f">>)],
     [key |-> "fontName", value |-> VNone]}

\* The size of an override map is the number of its styles plus the number
\* of their attribute entries.
MaxSize == 3

\* The dicts of at most n attribute entries: no key twice.
AttrMaps(n) ==
    {s \in UNION {[1..k -> OvAttrs] : k \in 0..n} :
        \A i, j \in 1..Len(s) : i # j => s[i].key # s[j].key}

\* The override maps of size at most n: no style name twice.
RECURSIVE OverrideMaps(_)
OverrideMaps(n) ==
    IF n <= 0 THEN {<<>>}
    ELSE {<<>>} \cup
         UNION {{<<[style |-> name, attrs |-> a]>> \o rest :
                    rest \in {r \in OverrideMaps(n - 1 - Len(a)) :
                                 \A i \in 1..Len(r) : r[i].style # name}} :
                name \in OvNames, a \in AttrMaps(n - 1)}

Overrides == OverrideMaps(MaxSize)

\* The bases a caller passes: None, a sample stylesheet, one of its own.
Bases ==
    {[heap |-> HeapEmpty, ref |-> NoSheet]}
    \cup {NewStyleSheet(HeapEmpty, "base", c) : c \in {SampleStyles, CallerStyles}}

ParentNames == {"Normal", "title", "DoesNotExist"}

MsIdle == [state |-> "idle", base |-> NoSheet, overrides |-> <<>>,
           create_missing |-> TRUE, parent_for_new |-> "Normal",
           before |-> HeapEmpty, ret |-> NoSheet, exc |-> "", log |-> <<>>]

\* The call returns or raises.
MakeStyles ==
    /\ ms.state = "called"
    /\ LET r == make_styles(heap, ms.base, ms.overrides, ms.create_missing,
                            ms.parent_for_new)
       IN  /\ heap' = r.heap
           /\ ms' = [ms EXCEPT !.state = IF r.raised THEN "raised" ELSE "returned",
                               !.ret = r.ret, !.exc = r.exc, !.log = r.log]
    /\ UNCHANGED <<fs, fsp, font_table, rf, img, bs, pdf>>

(* ----------------------------------------------------------------------- *)
(* build_story.py.  An optional argument is a sequence: <<>> for None,     *)
(* <<v>> for the value v.  A flowable is a record of its kind and of the   *)
(* arguments it was constructed with.                                      *)
(* ----------------------------------------------------------------------- *)
Paragraph(text, style) == [kind |-> "Paragraph", text |-> text, style |-> style]

Spacer(width, height) ==
    [kind |-> "Spacer", width |-> FloatOfInt(width), height |-> FloatOfInt(height)]

KeepTogether(flowables) == [kind |-> "KeepTogether", flowables |-> flowables]

\* A flowable of the caller's, for prepend and append.
Extra(id) == [kind |-> "Extra", id |-> id]

DefaultAfterTitle == 12
DefaultAfterBody == 24
DefaultImageMaxHeight == 100

\* _get_style(styles, name): the style, or KeyError with the name.
_get_style(h, styles, name) ==
    LET found == SheetGet(h, styles, name)
    IN  IF found.ok THEN [ok |-> TRUE, style |-> found.ref, missing |-> ""]
        ELSE [ok |-> FALSE, style |-> NoRef, missing |-> name]

\* The outcome of a build_story call that raises KeyError for a style name,
\* having constructed the flowables made.
StoryRaises(missing, made) ==
    [ret |-> <<>>, raised |-> TRUE, exc |-> "KeyError", missing |-> missing,
     made |-> made, image_calls |-> <<>>, log |-> <<>>]

\* x if x is not None else default: 0 is passed on.
OrDefaultNoneOnly(x, default) == IF x = <<>> THEN default ELSE x[1]

\* x or default, for an optional number: the default for None and for 0.
OrDefault(x, default) == IF x = <<>> \/ x[1] = 0 THEN default ELSE x[1]

\* A spacing lookup that honours an override only when both are given.
SpacingGetBoth(spacing, key, default) ==
    IF spacing # <<>> /\ DOMAIN spacing[1] = {"after_title", "after_body"}
    THEN spacing[1][key] ELSE default

\* dict.get(key, default) on (spacing or {})
SpacingGet(spacing, key, default) ==
    IF spacing # <<>> /\ key \in DOMAIN spacing[1] THEN spacing[1][key] ELSE default

\* The image part of build_story that puts whatever scaled_image_flowable
\* returned into the block, None included.
ImageBlockKeepsNone(a) ==
    IF a.image_path = <<>>
    THEN [img_block |-> <<>>, image_calls |-> <<>>, log |-> <<>>]
    ELSE LET max_height == OrDefault(a.image_max_height_px, DefaultImageMaxHeight)
             image == scaled_image_flowable(a.image_path[1], max_height, FALSE)
         IN  [img_block |-> <<image.ret>>,
              image_calls |-> <<[file |-> a.image_path[1], max_height |-> max_height]>>,
              log |-> image.log]

\* The image part of build_story (lines 80-87): the block of at most one
\* image element, the call of scaled_image_flowable and what was logged.
ImageBlock(a) ==
    IF a.image_path = <<>>
    THEN [img_block |-> <<>>, image_calls |-> <<>>, log |-> <<>>]
    ELSE LET max_height == OrDefault(a.image_max_height_px, DefaultImageMaxHeight)
             image == scaled_image_flowable(a.image_path[1], max_height, FALSE)
         IN  [img_block |-> IF image.ret # NoFlowable THEN <<image.ret>> ELSE <<>>,
              image_calls |-> <<[file |-> a.image_path[1], max_height |-> max_height]>>,
              log |-> image.log \o
                      (IF image.ret = NoFlowable
                       THEN <<[level |-> "warning", what |-> "image_skipped"]>>
                       ELSE <<>>)]

\* The part of build_story after the style lookups, grouping whenever
\* keep_image_with_body is set, with or without an image.
ComposeStoryAlwaysGroups(a, title_style, body_style) ==
    LET sp_after_title == SpacingGet(a.spacing, "after_title", DefaultAfterTitle)
        sp_after_body == SpacingGet(a.spacing, "after_body", DefaultAfterBody)
        before == IF a.prepend # <<>> THEN a.prepend[1] ELSE <<>>
        head == <<Paragraph(a.title, title_style), Spacer(1, sp_after_title)>>
        body_flowable == <<Paragraph(a.body, body_style), Spacer(1, sp_after_body)>>
        image == ImageBlock(a)
        img_block == image.img_block
        grouped == a.keep_image_with_body
        middle == IF grouped THEN <<KeepTogether(body_flowable \o img_block)>>
                  ELSE body_flowable \o img_block
        after == IF a.append # <<>> THEN a.append[1] ELSE <<>>
    IN  [ret |-> before \o head \o middle \o after,
         raised |-> FALSE, exc |-> "", missing |-> "",
         made |-> head \o body_flowable \o img_block
                  \o (IF grouped THEN middle ELSE <<>>),
         image_calls |-> image.image_calls,
         log |-> image.log]

\* The part of build_story after the two style lookups (lines 70-98); a is
\* the record of the call's keyword arguments.
ComposeStory(a, title_style, body_style) ==
    LET sp_after_title == SpacingGet(a.spacing, "after_title", DefaultAfterTitle)
        sp_after_body == SpacingGet(a.spacing, "after_body", DefaultAfterBody)
        before == IF a.prepend # <<>> THEN a.prepend[1] ELSE <<>>
        head == <<Paragraph(a.title, title_style), Spacer(1, sp_after_title)>>
        body_flowable == <<Paragraph(a.body, body_style), Spacer(1, sp_after_body)>>
        image == ImageBlock(a)
        img_block == image.img_block
        grouped == a.keep_image_with_body /\ img_block # <<>>
        middle == IF grouped THEN <<KeepTogether(body_flowable \o img_block)>>
                  ELSE body_flowable \o img_block
        after == IF a.append # <<>> THEN a.append[1] ELSE <<>>
    IN  [ret |-> before \o head \o middle \o after,
         raised |-> FALSE, exc |-> "", missing |-> "",
         made |-> head \o body_flowable \o img_block
                  \o (IF grouped THEN middle ELSE <<>>),
         image_calls |-> image.image_calls,
         log |-> image.log]

\* build_story that looks each style up only when its paragraph is made.
build_story_lazy_styles(h, a) ==
    LET title_style == _get_style(h, a.styles, "Title")
        body_style == _get_style(h, a.styles, "BodyText")
    IN  IF ~title_style.ok THEN StoryRaises(title_style.missing, <<>>)
        ELSE IF ~body_style.ok
        THEN StoryRaises(body_style.missing,
                         <<Paragraph(a.title, title_style.style),
                           Spacer(1, SpacingGet(a.spacing, "after_title",
                                                DefaultAfterTitle))>>)
        ELSE ComposeStory(a, title_style.style, body_style.style)

\* build_story(title=, body=, styles=, ...) on the heap h, a being the
\* record of its keyword arguments: the story it returns or the KeyError it
\* raises, the flowables it constructed (made), its calls of
\* scaled_image_flowable and what was logged.
build_story(h, a) ==
    LET title_style == _get_style(h, a.styles, "Title")
        body_style == _get_style(h, a.styles, "BodyText")
    IN  IF ~title_style.ok THEN StoryRaises(title_style.missing, <<>>)
        ELSE IF ~body_style.ok THEN StoryRaises(body_style.missing, <<>>)
        ELSE ComposeStory(a, title_style.style, body_style.style)

\* The arguments of the build_story calls.
Titles == {"", "Report"}
Bodies == {"Body text"}

\* Stylesheets with Title but no BodyText, and with BodyText but no Title.
TitleOnlyStyles ==
    [byName |-> [n \in {"Normal", "Title"} |-> SampleStyles.byName[n]],
     byAlias |-> SampleStyles.byAlias]

BodyOnlyStyles ==
    [byName |-> [n \in {"Normal", "BodyText"} |-> SampleStyles.byName[n]],
     byAlias |-> EmptyMap]

StoryStyles == {SampleStyles, CallerStyles, TitleOnlyStyles, BodyOnlyStyles}

StoryImages ==
    {<<>>,
     <<[exists |-> FALSE, decodes |-> FALSE, iw |-> 0, ih |-> 0]>>,
     <<[exists |-> TRUE, decodes |-> FALSE, iw |-> 0, ih |-> 0]>>,
     <<[exists |-> TRUE, decodes |-> TRUE, iw |-> 4, ih |-> 5]>>,
     <<[exists |-> TRUE, decodes |-> TRUE, iw |-> 100, ih |-> 200]>>}

StoryMaxHeights == {<<>>, <<0>>, <<-1>>, <<10>>, <<300>>}

Spacings ==
    {<<>>, <<EmptyMap>>, <<[after_title |-> 6]>>, <<[after_body |-> 30]>>,
     <<[after_title |-> 6, after_body |-> 30]>>}

Prepends == {<<>>, <<<<>>>>, <<<<Extra(1)>>>>}
Appends == {<<>>, <<<<>>>>, <<<<Extra(2), Extra(3)>>>>}

BsIdle == [state |-> "idle", title |-> "", body |-> "", styles |-> NoSheet,
           image_path |-> <<>>, image_max_height_px |-> <<>>, spacing |-> <<>>,
           prepend |-> <<>>, append |-> <<>>, keep_image_with_body |-> TRUE,
           ret |-> <<>>, exc |-> "", missing |-> "", made |-> <<>>,
           image_calls |-> <<>>, log |-> <<>>]

\* The call returns or raises.
BuildStory ==
    /\ bs.state = "called"
    /\ LET r == build_story(heap, bs)
       IN  bs' = [bs EXCEPT !.state = IF r.raised THEN "raised" ELSE "returned",
                            !.ret = r.ret, !.exc = r.exc, !.missing = r.missing,
                            !.made = r.made, !.image_calls = r.image_calls,
                            !.log = r.log]
    /\ UNCHANGED <<fs, fsp, font_table, rf, img, heap, ms, pdf>>

(* ----------------------------------------------------------------------- *)
(* build_pdf.py.  The call goes through its steps one after the other;     *)
(* pdf.pc is the step it is about to perform and pdf.steps the steps it    *)
(* has performed.  Creating the directory and rendering are the            *)
(* environment's: each succeeds or raises.                                 *)
(* ----------------------------------------------------------------------- *)
OutputPath == <<"/", "out", "report.pdf">>

PdfSteps == <<"mkdir", "register_fonts", "make_styles", "build_story", "build">>

\* build_pdf giving up after register_fonts when a registration failed.
PdfAfterStopsOnFontFailure(step, failed) ==
    IF step = "register_fonts" /\ failed THEN "raised"
    ELSE CASE step = "mkdir" -> "register_fonts"
           [] step = "register_fonts" -> "make_styles"
           [] step = "make_styles" -> "build_story"
           [] step = "build_story" -> "build"

\* Where build_pdf goes after a step that did not raise out of it; failed
\* says that a font registration of the step failed.
PdfAfter(step, failed) ==
    CASE step = "mkdir" -> "register_fonts"
      [] step = "register_fonts" -> "make_styles"
      [] step = "make_styles" -> "build_story"
      [] step = "build_story" -> "build"

\* An override that is handed on only when the font table has the name.
FontOverrideRegisteredOnly(font) ==
    IF font # <<>> /\ font[1] # <<>>
       /\ font[1] \in DOMAIN font_table /\ getFont(font_table, font[1])
    THEN <<[key |-> "fontName", value |-> VStr(font[1])]>>
    ELSE <<>>

\* The overrides build_pdf hands to make_styles: a font name for Title and
\* for BodyText when the configured override is a non-empty string.
FontOverride(font) ==
    IF font # <<>> /\ font[1] # <<>>
    THEN <<[key |-> "fontName", value |-> VStr(font[1])]>>
    ELSE <<>>

PdfOverrides(config) ==
    <<[style |-> "Title", attrs |-> FontOverride(config.override_title_font)],
      [style |-> "BodyText", attrs |-> FontOverride(config.override_body_font)]>>

\* The arguments build_pdf hands to build_story.
PdfStoryArgs(p) ==
    [title |-> p.title, body |-> p.body, styles |-> p.styles,
     image_path |-> p.image_path,
     image_max_height_px |-> <<p.config.image_max_height_px>>,
     spacing |-> <<>>,
     prepend |-> <<IF p.extra_flowables_before = <<>> THEN <<>>
                   ELSE p.extra_flowables_before[1]>>,
     append |-> <<IF p.extra_flowables_after = <<>> THEN <<>>
                  ELSE p.extra_flowables_after[1]>>,
     keep_image_with_body |-> TRUE]

\* The end of build_pdf that returns the path whatever the engine did.
render_swallows(output_path, engine_ok) ==
    [pc |-> "returned", ret |-> output_path, exc |-> "", message |-> NoPath]

\* The end of build_pdf (lines 74-81): doc.build(story) returned, or raised
\* an exception that is logged and replaced by a RuntimeError carrying the
\* output path.
render(output_path, engine_ok) ==
    IF engine_ok
    THEN [pc |-> "returned", ret |-> output_path, exc |-> "", message |-> NoPath]
    ELSE [pc |-> "raised", ret |-> NoPath, exc |-> "RuntimeError",
          message |-> output_path]

PdfIdle ==
    [pc |-> "idle",
     config |-> [output_path |-> NoPath, fonts |-> <<>>,
                 override_title_font |-> <<>>, override_body_font |-> <<>>,
                 image_max_height_px |-> 300],
     title |-> "", body |-> "", image_path |-> <<>>,
     extra_flowables_before |-> <<>>, extra_flowables_after |-> <<>>,
     steps |-> <<>>, styles |-> NoSheet, story |-> <<>>, engine |-> "",
     ret |-> NoPath, exc |-> "", message |-> NoPath]

\* out_dir.mkdir(parents=True, exist_ok=True): done, or an OSError that
\* leaves build_pdf.
PdfMkdir(ok) ==
    /\ pdf.pc = "mkdir"
    /\ pdf' = IF ok
              THEN [pdf EXCEPT !.pc = PdfAfter("mkdir", FALSE),
                               !.steps = Append(@, "mkdir")]
              ELSE [pdf EXCEPT !.pc = "raised", !.exc = "OSError"]
    /\ UNCHANGED <<fs, fsp, font_table, rf, img, heap, ms, bs>>

\* register_fonts(config.fonts)
PdfRegisterFonts ==
    /\ pdf.pc = "register_fonts"
    /\ LET r == register_fonts(fs, font_table, pdf.config.fonts)
       IN  /\ font_table' = r.tbl
           /\ rf' = [state |-> "returned", fonts |-> pdf.config.fonts,
                     before |-> font_table, log |-> r.log, calls |-> r.calls,
                     again |-> FALSE, prev_ok |-> FALSE]
           /\ pdf' = [pdf EXCEPT
                         !.pc = PdfAfter("register_fonts",
                                         \E i \in 1..Len(r.calls) : ~r.calls[i].ok),
                         !.steps = Append(@, "register_fonts")]
    /\ UNCHANGED <<fs, fsp, img, heap, ms, bs>>

\* make_styles(overrides={...}) on the sample stylesheet; a KeyError would
\* leave build_pdf.
PdfMakeStyles ==
    /\ pdf.pc = "make_styles"
    /\ LET r == make_styles(heap, NoSheet, PdfOverrides(pdf.config), TRUE, "Normal")
       IN  /\ heap' = r.heap
           /\ pdf' = IF r.raised
                     THEN [pdf EXCEPT !.pc = "raised", !.exc = r.exc,
                                      !.steps = Append(@, "make_styles")]
                     ELSE [pdf EXCEPT !.pc = PdfAfter("make_styles", FALSE),
                                      !.styles = r.ret,
                                      !.steps = Append(@, "make_styles")]
    /\ UNCHANGED <<fs, fsp, font_table, rf, img, ms, bs>>

\* build_story(...); a KeyError would leave build_pdf.
PdfBuildStory ==
    /\ pdf.pc = "build_story"
    /\ LET r == build_story(heap, PdfStoryArgs(pdf))
       IN  pdf' = IF r.raised
                  THEN [pdf EXCEPT !.pc = "raised", !.exc = r.exc,
                                   !.steps = Append(@, "build_story")]
                  ELSE [pdf EXCEPT !.pc = PdfAfter("build_story", FALSE),
                                   !.story = r.ret,
                                   !.steps = Append(@, "build_story")]
    /\ UNCHANGED <<fs, fsp, font_table, rf, img, heap, ms, bs>>

\* doc.build(story): the engine renders the story or raises.
PdfRender(engine_ok) ==
    /\ pdf.pc = "build"
    /\ LET r == render(pdf.config.output_path, engine_ok)
       IN  pdf' = [pdf EXCEPT !.pc = r.pc, !.ret = r.ret, !.exc = r.exc,
                              !.message = r.message,
                              !.engine = IF engine_ok THEN "ok" ELSE "raised",
                              !.steps = Append(@, "build")]
    /\ UNCHANGED <<fs, fsp, font_table, rf, img, heap, ms, bs>>

\* The configurations and arguments of the build_pdf calls.
S_NoSuchFont == <<"N", "o", "n", "e", "x">>

TitleFonts == {<<>>, <<<<>>>>, <<N_Inter>>, <<S_NoSuchFont>>}
BodyFonts == {<<>>, <<N_Dummy>>}

PdfImages ==
    {<<>>,
     <<[exists |-> TRUE, decodes |-> TRUE, iw |-> 100, ih |-> 200]>>,
     <<[exists |-> FALSE, decodes |-> FALSE, iw |-> 0, ih |-> 0]>>}

PdfExtras == {<<>>, <<<<Extra(1)>>>>}

(* ----------------------------------------------------------------------- *)
(* Specifications                                                          *)
(* ----------------------------------------------------------------------- *)
InitFontSpec ==
    /\ fs \in [Nodes -> Kinds]
    /\ fsp = FspIdle
    /\ font_table = TableEmpty
    /\ rf = RfIdle
    /\ img = ImgIdle
    /\ heap = HeapEmpty
    /\ ms = MsIdle
    /\ bs = BsIdle
    /\ pdf = PdfIdle

NextFontSpec == \E name \in Names, raw \in RawPaths : Construct(name, raw)

SpecFontSpec == InitFontSpec /\ [][NextFontSpec]_vars

\* Every font file starts as a font: each FontSpec validated.
InitFonts ==
    /\ fs = [p \in Nodes |-> IF p \in FontNodes THEN "font" ELSE "none"]
    /\ fsp = FspIdle
    /\ font_table = TableEmpty
    /\ rf = RfIdle
    /\ img = ImgIdle
    /\ heap = HeapEmpty
    /\ ms = MsIdle
    /\ bs = BsIdle
    /\ pdf = PdfIdle

NextFonts ==
    \/ \E fonts \in FontLists : RegisterFonts(fonts)
    \/ \E p \in FontNodes, k \in {"font", "none"} : FsChange(p, k)

SpecFonts == InitFonts /\ [][NextFonts]_vars

\* A caller has called scaled_image_flowable with some arguments.
InitImage ==
    /\ fs = [p \in Nodes |-> "none"]
    /\ fsp = FspIdle
    /\ font_table = TableEmpty
    /\ rf = RfIdle
    /\ \E file \in ImageFiles, max_height \in MaxHeights, upscale \in BOOLEAN :
          img = [state |-> "called", file |-> file, max_height |-> max_height,
                 upscale |-> upscale, ret |-> NoFlowable, log |-> <<>>]
    /\ heap = HeapEmpty
    /\ ms = MsIdle
    /\ bs = BsIdle
    /\ pdf = PdfIdle

NextImage == ScaledImageFlowable

SpecImage == InitImage /\ [][NextImage]_vars

\* A caller has called make_styles with some arguments; before is the heap
\* as the caller left it.
InitStyles ==
    /\ fs = [p \in Nodes |-> "none"]
    /\ fsp = FspIdle
    /\ font_table = TableEmpty
    /\ rf = RfIdle
    /\ img = ImgIdle
    /\ bs = BsIdle
    /\ pdf = PdfIdle
    /\ \E b \in Bases, overrides \in Overrides, create_missing \in BOOLEAN,
          parent_for_new \in ParentNames :
          /\ heap = b.heap
          /\ ms = [state |-> "called", base |-> b.ref, overrides |-> overrides,
                   create_missing |-> create_missing,
                   parent_for_new |-> parent_for_new,
                   before |-> b.heap, ret |-> NoSheet, exc |-> "", log |-> <<>>]

NextStyles == MakeStyles

SpecStyles == InitStyles /\ [][NextStyles]_vars

\* A caller has called build_story with some arguments, the stylesheet
\* among them.
InitStory ==
    /\ fs = [p \in Nodes |-> "none"]
    /\ fsp = FspIdle
    /\ font_table = TableEmpty
    /\ rf = RfIdle
    /\ img = ImgIdle
    /\ ms = MsIdle
    /\ pdf = PdfIdle
    /\ \E c \in StoryStyles, title \in Titles, body \in Bodies,
          image_path \in StoryImages, image_max_height_px \in StoryMaxHeights,
          spacing \in Spacings, prepend \in Prepends, append \in Appends,
          keep_image_with_body \in BOOLEAN :
          /\ heap = NewStyleSheet(HeapEmpty, "base", c).heap
          /\ bs = [BsIdle EXCEPT !.state = "called", !.title = title, !.body = body,
                                 !.styles = "base", !.image_path = image_path,
                                 !.image_max_height_px = image_max_height_px,
                                 !.spacing = spacing, !.prepend = prepend,
                                 !.append = append,
                                 !.keep_image_with_body = keep_image_with_body]

NextStory == BuildStory

SpecStory == InitStory /\ [][NextStory]_vars

\* A caller has called build_pdf; the font files of the configured specs may
\* have been deleted since the specs were validated.
\* build_pdf has been called: the font files as they are, the configuration
\* and the arguments of the call.
InitPdf ==
    /\ fs \in {f \in [Nodes -> {"font", "none"}] :
                  \A p \in Nodes \ FontNodes : f[p] = "none"}
    /\ fsp = FspIdle
    /\ font_table = TableEmpty
    /\ rf = RfIdle
    /\ img = ImgIdle
    /\ heap = HeapEmpty
    /\ ms = MsIdle
    /\ bs = BsIdle
    /\ \E fonts \in FontLists, title_font \in TitleFonts, body_font \in BodyFonts,
          image_path \in PdfImages, extra \in PdfExtras :
          pdf = [PdfIdle EXCEPT
                    !.pc = "mkdir",
                    !.config = [output_path |-> OutputPath, fonts |-> fonts,
                                override_title_font |-> title_font,
                                override_body_font |-> body_font,
                                image_max_height_px |-> 300],
                    !.title = "Report", !.body = "Body text",
                    !.image_path = image_path,
                    !.extra_flowables_before = extra,
                    !.extra_flowables_after = extra]

NextPdf ==
    \/ \E ok \in BOOLEAN : PdfMkdir(ok)
    \/ PdfRegisterFonts
    \/ PdfMakeStyles
    \/ PdfBuildStory
    \/ \E engine_ok \in BOOLEAN : PdfRender(engine_ok)

SpecPdf == InitPdf /\ [][NextPdf]_vars

(* ----------------------------------------------------------------------- *)
(* Properties of FontSpec                                                  *)
(* ----------------------------------------------------------------------- *)
ResolvedOf(r) == Resolve(ExpandUser(r.raw))

PathAcceptable(f, p) ==
    /\ PathExists(f, p)
    /\ PathIsFile(f, p)
    /\ Lower(Suffix(p)) \in {".ttf", ".otf", ".ttc"}

PathErrors(r) == {e \in r.errors : e.loc = "file_path"}

\* What C1 says of each failing path, and of the stored path.
C1_PathOutcome ==
    fsp.state # "none" =>
        LET p == ResolvedOf(fsp)
        IN  /\ fsp.state = "ok" => fsp.file_path = p
            /\ ~PathExists(fs, p) =>
                   PathErrors(fsp) = {[loc |-> "file_path", err |-> "does_not_exist", arg |-> p]}
            /\ PathExists(fs, p) /\ ~PathIsFile(fs, p) =>
                   PathErrors(fsp) = {[loc |-> "file_path", err |-> "not_a_file", arg |-> p]}
            /\ PathIsFile(fs, p) /\ Lower(Suffix(p)) \notin {".ttf", ".otf", ".ttc"} =>
                   PathErrors(fsp) = {[loc |-> "file_path", err |-> "unsupported_extension",
                                      arg |-> <<Lower(Suffix(p))>>]}

\* C1 as stated: constructing a FontSpec succeeds exactly when the resolved
\* path exists, is a regular file and has an extension among ttf/otf/ttc;
\* on success the stored path is the resolved path; each failing path
\* raises the matching validation error.
C1_Original ==
    /\ fsp.state # "none" => (fsp.state = "ok" <=> PathAcceptable(fs, ResolvedOf(fsp)))
    /\ C1_PathOutcome

\* C1, amended: constructing a FontSpec succeeds exactly when the name has
\* at least 5 characters and the resolved path exists, is a regular file and
\* has an extension among ttf/otf/ttc (compared in lower case); on success
\* the stored path is the resolved absolute path (~ expanded); a missing
\* path, a directory and a file with another extension each raise the
\* matching validation error, the last naming the extension.
C1_FontSpecValidation ==
    /\ fsp.state # "none" =>
           (fsp.state = "ok" <=> (Len(fsp.name) >= 5 /\ PathAcceptable(fs, ResolvedOf(fsp))))
    /\ C1_PathOutcome

\* A FontSpec was constructed from a "~" path and stores the expanded path.
C1_Witness ==
    /\ fsp.state = "ok"
    /\ Head(fsp.raw) = "~"
    /\ fsp.file_path = P_F

(* ----------------------------------------------------------------------- *)
(* Properties of register_fonts                                            *)
(* ----------------------------------------------------------------------- *)
Occurrences(fonts, n) == {i \in 1..Len(fonts) : fonts[i].name = n}
Attempts(n) == {i \in 1..Len(rf.calls) : rf.calls[i].name = n}
Logged(level, what, n) == {i \in 1..Len(rf.log) : rf.log[i] = LogRec(level, what, n)}

Min(S) == CHOOSE x \in S : \A y \in S : x <= y

\* C2: in one call, a name that occurs several times in the input has at
\* most one registration attempt, made for its first occurrence, and one
\* duplicate warning for each later occurrence.
C2_DuplicateNamesOnce ==
    rf.state # "idle" =>
        \A n \in FontNames :
            LET occ == Occurrences(rf.fonts, n)
            IN  occ # {} =>
                  /\ Cardinality(Attempts(n)) <= 1
                  /\ \A i \in Attempts(n) :
                         rf.calls[i].path = rf.fonts[Min(occ)].file_path
                  /\ Cardinality(Logged("warning", "duplicate", n)) = Cardinality(occ) - 1

\* A call whose input holds one name twice, with two different files, the
\* first of which failed to load: one attempt, one warning.
C2_Witness ==
    /\ rf.state = "returned"
    /\ Len(rf.fonts) = 2
    /\ rf.fonts[1].name = rf.fonts[2].name
    /\ rf.fonts[1].file_path # rf.fonts[2].file_path
    /\ Len(rf.calls) = 1
    /\ ~rf.calls[1].ok
    /\ Logged("warning", "duplicate", rf.fonts[1].name) # {}

\* C3: for every spec whose name the font table held when the call began,
\* the call makes no registerFont call for that name and the table's entry
\* for it is unchanged.
C3_RegisteredNameUntouched ==
    rf.state # "idle" =>
        \A i \in 1..Len(rf.fonts) :
            LET n == rf.fonts[i].name
            IN  rf.before[n] # NoPath =>
                  /\ Attempts(n) = {}
                  /\ font_table[n] = rf.before[n]

\* A call was given a spec whose name was registered, from another file
\* that is loadable now.
C3_Witness ==
    /\ rf.state = "returned"
    /\ \E i \in 1..Len(rf.fonts) :
          /\ rf.before[rf.fonts[i].name] # NoPath
          /\ rf.before[rf.fonts[i].name] # rf.fonts[i].file_path
          /\ fs[rf.fonts[i].file_path] = "font"
          /\ Logged("debug", "already_registered", rf.fonts[i].name) # {}

\* The specs of the input that open a name: the first occurrence of a name
\* the table did not hold.
Fresh(j) ==
    /\ rf.before[rf.fonts[j].name] = NoPath
    /\ \A k \in 1..(j - 1) : rf.fonts[k].name # rf.fonts[j].name

\* C4: when a registration fails, the call logs an error, does not raise,
\* and every later spec with a distinct, not yet registered name gets its
\* own registration attempt.
C4_FailureDoesNotAbort ==
    rf.state # "idle" =>
        \A i \in 1..Len(rf.fonts) :
            (Fresh(i) /\ \E c \in Attempts(rf.fonts[i].name) : ~rf.calls[c].ok) =>
                /\ rf.state = "returned"
                /\ Logged("error", "failed", rf.fonts[i].name) # {}
                /\ \A j \in (i + 1)..Len(rf.fonts) :
                       Fresh(j) =>
                           \E c \in Attempts(rf.fonts[j].name) :
                               rf.calls[c].path = rf.fonts[j].file_path

\* The first spec failed to register and the second, of another name,
\* registered.
C4_Witness ==
    /\ rf.state = "returned"
    /\ Len(rf.fonts) = 2
    /\ Len(rf.calls) = 2
    /\ rf.calls[1].name = rf.fonts[1].name /\ ~rf.calls[1].ok
    /\ rf.calls[2].name = rf.fonts[2].name /\ rf.calls[2].ok
    /\ font_table[rf.fonts[2].name] = rf.fonts[2].file_path

\* C5: over any sequence of calls the font table is append-only (an entry
\* once made never changes: the name is neither removed nor registered
\* again), no call raises, and a call with the same input as the call
\* before, none of whose registrations failed, makes no registerFont call.
C5_TableAppendOnly ==
    [][ /\ \A n \in FontNames : font_table[n] # NoPath => font_table'[n] = font_table[n]
        /\ rf' # rf =>
              /\ rf'.state = "returned"
              /\ \A c \in 1..Len(rf'.calls) : font_table[rf'.calls[c].name] = NoPath
              /\ (rf'.again /\ rf'.prev_ok) => rf'.calls = <<>> ]_vars

\* A second call with the input of the first, whose fonts all registered,
\* was made while every file was loadable, and registered nothing.
C5_Witness ==
    /\ rf.state = "returned"
    /\ rf.again /\ rf.prev_ok
    /\ Len(rf.fonts) = 2
    /\ rf.fonts[1].name # rf.fonts[2].name
    /\ \A i \in 1..2 : font_table[rf.fonts[i].name] = rf.fonts[i].file_path
    /\ \A p \in FontNodes : fs[p] = "font"
    /\ rf.calls = <<>>

(* ----------------------------------------------------------------------- *)
(* Properties of scaled_image_flowable                                     *)
(* ----------------------------------------------------------------------- *)
ImgDone == img.state \in {"returned", "raised"}

\* C6: the call returns None, raising nothing, when max_height <= 0, when
\* the file does not exist, when the reader raises, and when a decoded
\* dimension is <= 0; in every other case it returns an image element.
C6_NoResultCases ==
    ImgDone =>
        /\ img.state = "returned"
        /\ img.ret = NoFlowable <=>
               \/ img.max_height <= 0
               \/ ~img.file.exists
               \/ ~img.file.decodes
               \/ img.file.iw <= 0
               \/ img.file.ih <= 0
        /\ img.ret # NoFlowable => img.ret.kind = "Image"

\* A decodable image of height 0 with a valid max_height gave no result, and
\* the invalid dimensions were logged.
C6_Witness ==
    /\ img.state = "returned"
    /\ img.max_height > 0
    /\ img.file.decodes /\ img.file.iw > 0 /\ img.file.ih = 0
    /\ img.ret = NoFlowable
    /\ img.log = <<[level |-> "error", what |-> "invalid_dimensions"]>>

\* The factor C7 names: 1 without upscaling for an image lower than
\* max_height, max_height / ih otherwise.
C7_Factor ==
    IF ~img.upscale /\ img.file.ih < img.max_height THEN FloatOfInt(1)
    ELSE FDiv(FloatOfInt(img.max_height), FloatOfInt(img.file.ih))

\* width / height = iw / ih, exactly: width * ih = height * iw.
SameRatio(width, height, iw, ih) ==
    LET e0 == IF width.e < height.e THEN width.e ELSE height.e
    IN  width.m * Pow2(width.e - e0) * ih = height.m * Pow2(height.e - e0) * iw

RECURSIVE IsPow2(_)
IsPow2(k) == k = 1 \/ (k > 1 /\ k % 2 = 0 /\ IsPow2(k \div 2))

C7_Sized(iw, ih, max_height, upscale) ==
    /\ img.file.iw = iw /\ img.file.ih = ih
    /\ img.max_height = max_height /\ img.upscale = upscale

\* The examples of C7: 10x20 under 10 gives 5x10; 5x5 under 50 stays 5x5
\* without upscale and becomes 50x50 with it.
C7_Examples ==
    /\ (\E u \in BOOLEAN : C7_Sized(10, 20, 10, u)) =>
           img.ret = ImageOf(FloatOfInt(5), FloatOfInt(10))
    /\ C7_Sized(5, 5, 50, FALSE) => img.ret = ImageOf(FloatOfInt(5), FloatOfInt(5))
    /\ C7_Sized(5, 5, 50, TRUE) => img.ret = ImageOf(FloatOfInt(50), FloatOfInt(50))

\* C7 as stated: the element's width and height are iw and ih times the
\* factor, so that the aspect ratio is preserved exactly.
C7_Original ==
    (ImgDone /\ img.ret # NoFlowable) =>
        /\ img.ret.width = FMul(FloatOfInt(img.file.iw), C7_Factor)
        /\ img.ret.height = FMul(FloatOfInt(img.file.ih), C7_Factor)
        /\ SameRatio(img.ret.width, img.ret.height, img.file.iw, img.file.ih)
        /\ C7_Examples

\* C7, amended: the factor is 1 when upscaling is disabled and
\* ih < max_height, and max_height / ih (a float division) otherwise; the
\* element's width and height are the float products iw * factor and
\* ih * factor, so the aspect ratio is preserved up to the rounding of the
\* division and of each product, and exactly when the factor is 1, when
\* max_height is a multiple of ih, or when ih is max_height times a power of
\* two (as in the examples).
C7_ScaleFactor ==
    (ImgDone /\ img.ret # NoFlowable) =>
        /\ img.ret.width = FMul(FloatOfInt(img.file.iw), C7_Factor)
        /\ img.ret.height = FMul(FloatOfInt(img.file.ih), C7_Factor)
        /\ ( \/ C7_Factor = FloatOfInt(1)
             \/ img.max_height % img.file.ih = 0
             \/ (img.file.ih % img.max_height = 0
                 /\ IsPow2(img.file.ih \div img.max_height)) ) =>
               SameRatio(img.ret.width, img.ret.height, img.file.iw, img.file.ih)
        /\ C7_Examples

\* A 3x7 image was scaled up to max_height 50 and its ratio is not 3:7.
C7_Witness ==
    /\ img.state = "returned"
    /\ img.ret # NoFlowable
    /\ C7_Sized(3, 7, 50, TRUE)
    /\ ~SameRatio(img.ret.width, img.ret.height, 3, 7)

(* ----------------------------------------------------------------------- *)
(* Properties of make_styles                                               *)
(* ----------------------------------------------------------------------- *)
MsDone == ms.state \in {"returned", "raised"}

StyleLogged(level, what, style, key) ==
    \E i \in 1..Len(ms.log) : ms.log[i] = StyleLog(level, what, style, key)

\* The stylesheet the call clones: the caller's, or the sample one it made.
StylesIn == IF ms.base = NoSheet THEN "sample" ELSE ms.base

Absent(h, ss, name) ==
    /\ name \notin DOMAIN h.sheets[ss].byName
    /\ name \notin DOMAIN h.sheets[ss].byAlias

\* What C9 says of the override of the style name, absent from the
\* stylesheet the call started from.
C9_Outcome(name) ==
    /\ (ms.create_missing /\ SheetGet(heap, StylesIn, ms.parent_for_new).ok) =>
          /\ ms.state = "returned"
          /\ name \in DOMAIN heap.sheets[ms.ret].byName
          /\ heap.styles[heap.sheets[ms.ret].byName[name]].parent
                = SheetGet(heap, ms.ret, ms.parent_for_new).ref
    /\ (ms.create_missing /\ ~SheetGet(heap, StylesIn, ms.parent_for_new).ok) =>
          /\ ms.state = "raised"
          /\ ms.exc = "KeyError"
    /\ ~ms.create_missing =>
          /\ ms.state = "returned"
          /\ StyleLogged("warning", "style_not_found", name, "")
          /\ Absent(heap, ms.ret, name)

\* C9: for an override naming a style absent from the collection: with
\* create_missing and an existing parent the call returns a collection with
\* a new style of that name whose parent is the parent style; with
\* create_missing and a parent that does not exist it fails with KeyError;
\* without create_missing it logs a warning, raises nothing and returns a
\* collection without that name.
C9_MissingStyle ==
    MsDone =>
        \A i \in 1..Len(ms.overrides) :
            Absent(heap, StylesIn, ms.overrides[i].style) =>
                C9_Outcome(ms.overrides[i].style)

\* Some override of the call names an alias of the stylesheet.
NamesAnAlias ==
    \E i \in 1..Len(ms.overrides) :
        ms.overrides[i].style \in DOMAIN heap.sheets[StylesIn].byAlias

\* The same holds of every call none of whose overrides names an alias.
C9_MissingStyleNoAlias == (MsDone /\ ~NamesAnAlias) => C9_MissingStyle

\* The three cases of C9 each happened, with no alias named.
C9_Created ==
    /\ ms.state = "returned" /\ ms.create_missing /\ ~NamesAnAlias
    /\ \E i \in 1..Len(ms.overrides) :
          /\ Absent(heap, StylesIn, ms.overrides[i].style)
          /\ StyleLogged("info", "set", ms.overrides[i].style, "fontSize")

C9_ParentMissing ==
    /\ ms.state = "raised" /\ ms.parent_for_new = "DoesNotExist" /\ ~NamesAnAlias

C9_Skipped ==
    /\ ms.state = "returned" /\ ~ms.create_missing /\ ~NamesAnAlias
    /\ \E i \in 1..Len(ms.overrides) :
          /\ Absent(heap, StylesIn, ms.overrides[i].style)
          /\ ms.overrides[i].attrs # <<>>

\* An entry C10 calls rejected: the key is not whitelisted, or the value's
\* type is not one the whitelist expects, or it is an alignment outside
\* ALLOWED_ALIGNMENTS.
Rejected(e) ==
    \/ e.key \notin DOMAIN _ALLOWED_ATTRS
    \/ /\ e.key \in DOMAIN _ALLOWED_ATTRS
       /\ \/ ~isinstance(_normalize_value(e.key, e.value), _ALLOWED_ATTRS[e.key])
          \/ /\ e.key = "alignment"
             /\ e.value.n \notin ALLOWED_ALIGNMENTS

\* A sequence without its j-th element.
Without(s, j) == SubSeq(s, 1, j - 1) \o SubSeq(s, j + 1, Len(s))

\* The call's override map without the j-th attribute entry of its i-th
\* style.
OverridesWithout(i, j) ==
    [ms.overrides EXCEPT ![i].attrs = Without(@, j)]

\* The warnings about the attribute key of the style name.
IsWarningOf(l, style, key) ==
    l.level = "warning" /\ l.style = style /\ l.key = key

\* A stylesheet as its contents: each style's parent name and attributes,
\* each alias's style name.
SheetView(h, ss) ==
    LET sheet == h.sheets[ss]
        NameOf(r) == IF r = NoRef THEN "" ELSE h.styles[r].name
    IN  [byName |-> [n \in DOMAIN sheet.byName |->
                        [parent |-> NameOf(h.styles[sheet.byName[n]].parent),
                         attrs |-> h.styles[sheet.byName[n]].attrs]],
         byAlias |-> [a \in DOMAIN sheet.byAlias |-> NameOf(sheet.byAlias[a])]]

\* C10: a rejected entry is skipped with a warning.  When its style is in
\* the returned collection a warning about it was logged, and a style the
\* call started with keeps that attribute's value; the call ends as the call
\* without the entry ends, with the same returned collection, and logs what
\* that call logs apart from the warning, so the entries after the rejected
\* one are applied as if it were not there.
C10_RejectedSkipped ==
    MsDone =>
        \A i \in 1..Len(ms.overrides) :
            \A j \in 1..Len(ms.overrides[i].attrs) :
                LET style == ms.overrides[i].style
                    e == ms.overrides[i].attrs[j]
                    other == make_styles(ms.before, ms.base, OverridesWithout(i, j),
                                         ms.create_missing, ms.parent_for_new)
                IN  Rejected(e) =>
                        /\ (ms.state = "returned"
                               /\ style \in DOMAIN heap.sheets[ms.ret].byName) =>
                              /\ \E l \in 1..Len(ms.log) :
                                    IsWarningOf(ms.log[l], style, e.key)
                              /\ style \in DOMAIN heap.sheets[StylesIn].byName =>
                                    getattr(heap, heap.sheets[ms.ret].byName[style], e.key)
                                        = getattr(heap, heap.sheets[StylesIn].byName[style],
                                                  e.key)
                        /\ other.raised = (ms.state = "raised")
                        /\ ms.state = "returned" =>
                              SheetView(heap, ms.ret) = SheetView(other.heap, other.ret)
                        /\ SelectSeq(ms.log, LAMBDA l : ~IsWarningOf(l, style, e.key))
                              = other.log

\* A style's first entry had a value of the wrong type and was skipped with
\* a warning, its second entry was assigned.
C10_Witness ==
    /\ ms.state = "returned"
    /\ \E i \in 1..Len(ms.overrides) :
          LET o == ms.overrides[i]
          IN  /\ Len(o.attrs) = 2
              /\ o.attrs[1] = [key |-> "fontSize", value |-> VStr(S_big)]
              /\ StyleLogged("warning", "invalid_type", o.style, "fontSize")
              /\ StyleLogged("info", "set", o.style, o.attrs[2].key)
              /\ getattr(heap, heap.sheets[ms.ret].byName[o.style], o.attrs[2].key)
                    = _normalize_value(o.attrs[2].key, o.attrs[2].value)

\* The value the attribute key of the style had when the j-th entry of the
\* i-th style was reached: the one the call without that entry leaves.
CurrentBefore(i, j) ==
    LET other == make_styles(ms.before, ms.base, OverridesWithout(i, j),
                             ms.create_missing, ms.parent_for_new)
    IN  getattr(other.heap, other.heap.sheets[other.ret].byName[ms.overrides[i].style],
                ms.overrides[i].attrs[j].key)

BsDone == bs.state \in {"returned", "raised"}

\* The required style names the stylesheet has no entry for, by name or by
\* alias.
Lacking == {n \in {"Title", "BodyText"} : ~SheetGet(heap, bs.styles, n).ok}

\* C12: when the stylesheet lacks 'Title' or 'BodyText', build_story raises
\* KeyError naming a style that is missing, whatever the other arguments
\* are, and it has constructed no flowable, called no image scaling and
\* logged nothing by then; with both styles present it does not raise.
C12_MissingStyleFails ==
    BsDone =>
        /\ Lacking # {} =>
              /\ bs.state = "raised"
              /\ bs.exc = "KeyError"
              /\ bs.missing \in Lacking
              /\ bs.made = <<>>
              /\ bs.image_calls = <<>>
              /\ bs.log = <<>>
              /\ bs.ret = <<>>
        /\ Lacking = {} => bs.state = "returned"

\* A call with Title but without BodyText, an image and flowables to
\* prepend raised for BodyText.
C12_Witness ==
    /\ bs.state = "raised"
    /\ Lacking = {"BodyText"}
    /\ bs.missing = "BodyText"
    /\ bs.image_path # <<>> /\ bs.image_path[1].decodes
    /\ bs.prepend = <<<<Extra(1)>>>>

\* The elements C13 and C14 name, for the call in bs: the title paragraph
\* and the body paragraph with the stylesheet's styles, the two spacers, the
\* prepended and appended elements, and the image element if one was made.
TitleElement == Paragraph(bs.title, SheetGet(heap, bs.styles, "Title").ref)
BodyElement == Paragraph(bs.body, SheetGet(heap, bs.styles, "BodyText").ref)
TitleSpacer == Spacer(1, SpacingGet(bs.spacing, "after_title", DefaultAfterTitle))
BodySpacer == Spacer(1, SpacingGet(bs.spacing, "after_body", DefaultAfterBody))
Prepended == IF bs.prepend = <<>> THEN <<>> ELSE bs.prepend[1]
Appended == IF bs.append = <<>> THEN <<>> ELSE bs.append[1]
ImageElements == SelectSeq(bs.made, LAMBDA f : f.kind = "Image")

\* The story around a middle part.
StoryAround(middle) ==
    Prepended \o <<TitleElement, TitleSpacer>> \o middle \o Appended

\* C13 as stated: with grouping enabled the middle is one grouped block of
\* body, spacer and the image if present; with grouping disabled it is body,
\* spacer, then the image.
C13_Original ==
    bs.state = "returned" =>
        bs.ret = StoryAround(
                    IF bs.keep_image_with_body
                    THEN <<KeepTogether(<<BodyElement, BodySpacer>> \o ImageElements)>>
                    ELSE <<BodyElement, BodySpacer>> \o ImageElements)

\* C13, amended: the story is prepended elements, title, spacer, middle,
\* appended elements; the middle is one grouped block of body, spacer and
\* image when grouping is enabled and an image element was produced, and
\* body, spacer and then the image (if any) as separate elements otherwise,
\* so without an image grouping enabled groups nothing.
C13_StoryOrder ==
    bs.state = "returned" =>
        /\ Len(ImageElements) <= 1
        /\ bs.ret = StoryAround(
                       IF bs.keep_image_with_body /\ ImageElements # <<>>
                       THEN <<KeepTogether(<<BodyElement, BodySpacer>> \o ImageElements)>>
                       ELSE <<BodyElement, BodySpacer>> \o ImageElements)

\* A story with prepended and appended elements and a grouped image.
C13_Witness ==
    /\ bs.state = "returned"
    /\ bs.keep_image_with_body
    /\ ImageElements # <<>>
    /\ Prepended # <<>> /\ Appended # <<>>
    /\ Len(bs.ret) = Len(Prepended) + 3 + Len(Appended)
    /\ bs.ret[Len(Prepended) + 3].kind = "KeepTogether"

\* Grouping enabled, no image: body and spacer are top-level elements.
C13_Ungrouped ==
    /\ bs.state = "returned"
    /\ bs.keep_image_with_body
    /\ bs.image_path = <<>>
    /\ bs.ret = StoryAround(<<BodyElement, BodySpacer>>)

\* The spacer heights of the call in bs: each override replaces its own
\* default and not the other.
SpacerHeights ==
    CASE bs.spacing = <<>> -> <<12, 24>>
      [] bs.spacing = <<EmptyMap>> -> <<12, 24>>
      [] bs.spacing = <<[after_title |-> 6]>> -> <<6, 24>>
      [] bs.spacing = <<[after_body |-> 30]>> -> <<12, 30>>
      [] bs.spacing = <<[after_title |-> 6, after_body |-> 30]>> -> <<6, 30>>

\* C14: with no image and nothing to prepend or append the story is exactly
\* title paragraph, spacer, body paragraph, spacer, for either value of the
\* grouping flag; the spacers are 12 and 24 points high by default, and an
\* 'after_title' or 'after_body' override replaces its own default only.
C14_FourElements ==
    (bs.state = "returned" /\ bs.image_path = <<>>
        /\ Prepended = <<>> /\ Appended = <<>>) =>
        bs.ret = <<Paragraph(bs.title, SheetGet(heap, bs.styles, "Title").ref),
                   Spacer(1, SpacerHeights[1]),
                   Paragraph(bs.body, SheetGet(heap, bs.styles, "BodyText").ref),
                   Spacer(1, SpacerHeights[2])>>

\* The default story, and one with only 'after_body' overridden.
C14_Witness ==
    /\ bs.state = "returned" /\ bs.image_path = <<>>
    /\ bs.prepend = <<>> /\ bs.append = <<>>
    /\ bs.spacing = <<[after_body |-> 30]>>
    /\ Len(bs.ret) = 4
    /\ bs.ret[2] = Spacer(1, 12)
    /\ bs.ret[4] = Spacer(1, 30)

C14_Defaults ==
    /\ bs.state = "returned" /\ bs.image_path = <<>>
    /\ bs.prepend = <<>> /\ bs.append = <<>> /\ bs.spacing = <<>>
    /\ bs.ret = <<TitleElement, Spacer(1, 12), BodyElement, Spacer(1, 24)>>

\* The call in bs asked for an image and scaled_image_flowable returned None.
ImageNotProduced == bs.image_calls # <<>> /\ ImageElements = <<>>

\* C15: when scaled_image_flowable returns None, build_story raises
\* nothing, logs a warning, and returns the story it returns for the same
\* arguments without an image path, whatever the grouping flag.
C15_ImageOmitted ==
    (BsDone /\ ImageNotProduced) =>
        /\ bs.state = "returned"
        /\ \E i \in 1..Len(bs.log) :
              bs.log[i] = [level |-> "warning", what |-> "image_skipped"]
        /\ bs.ret = build_story(heap, [bs EXCEPT !.image_path = <<>>]).ret
        /\ \A i \in 1..Len(bs.ret) : bs.ret[i] # NoFlowable

\* An undecodable image with grouping enabled: the story is the four
\* elements of the call without an image.
C15_Witness ==
    /\ bs.state = "returned"
    /\ bs.keep_image_with_body
    /\ bs.image_path # <<>> /\ bs.image_path[1].exists /\ ~bs.image_path[1].decodes
    /\ bs.prepend = <<>> /\ bs.append = <<>>
    /\ bs.ret = <<TitleElement, TitleSpacer, BodyElement, BodySpacer>>
    /\ Len(bs.log) = 2

\* The error scaled_image_flowable logs for a max_height that is not > 0.
InvalidHeightLogged ==
    \E i \in 1..Len(bs.log) :
        bs.log[i] = [level |-> "error", what |-> "invalid_max_height"]

C20_Negative ==
    /\ bs.state = "returned"
    /\ bs.image_max_height_px = <<-1>>
    /\ bs.image_path = <<[exists |-> TRUE, decodes |-> TRUE, iw |-> 100, ih |-> 200]>>
    /\ InvalidHeightLogged
    /\ ImageElements = <<>>

\* What C18 expects a colour string of the model to become: 0x1f with or
\* without the leading '#', the string itself when it is no hex number.
C18_Expected(s) ==
    CASE s = <<"#", "1", "f">> -> VColor(31)
      [] s = <<"1", "f">> -> VColor(31)
      [] s = <<"g">> -> VStr(<<"g">>)

\* C18: a textColor or backColor override given as a string is read as a
\* hex number, '#' being prefixed when absent, and the style has the
\* resulting colour; a string that is no hex number is kept as it is and,
\* str being an accepted type, is the style's value.
C18_ColorStrings ==
    ms.state = "returned" =>
        \A i \in 1..Len(ms.overrides) :
            \A j \in 1..Len(ms.overrides[i].attrs) :
                LET style == ms.overrides[i].style
                    e == ms.overrides[i].attrs[j]
                IN  (/\ style \in DOMAIN heap.sheets[ms.ret].byName
                     /\ e.key \in {"textColor", "backColor"}
                     /\ e.value.t = "str") =>
                        /\ getattr(heap, heap.sheets[ms.ret].byName[style], e.key)
                              = C18_Expected(e.value.s)
                        /\ \A l \in 1..Len(ms.log) : ~IsWarningOf(ms.log[l], style, e.key)

\* Title got the raw string "g" as textColor and the colour 0x1f, written
\* without '#', as backColor.
C18_Witness ==
    /\ ms.state = "returned"
    /\ "Title" \in DOMAIN heap.sheets[ms.ret].byName
    /\ getattr(heap, heap.sheets[ms.ret].byName["Title"], "textColor") = VStr(<<"g">>)
    /\ getattr(heap, heap.sheets[ms.ret].byName["Title"], "backColor") = VColor(31)
    /\ StyleLogged("info", "set", "Title", "textColor")
    /\ StyleLogged("info", "set", "Title", "backColor")

(* ----------------------------------------------------------------------- *)
(* register_fonts: a name whose first spec fails                           *)
(* ----------------------------------------------------------------------- *)
\* C19: in one call, when the registration attempted for a name fails, that
\* attempt is the only one for the name and was made for its first spec,
\* every later spec of that name is skipped with the duplicate warning, and
\* the name is not in the font table after the call, whatever file a later
\* spec of that name points to.
C19_FailedNameStaysUnregistered ==
    rf.state # "idle" =>
        \A n \in FontNames :
            (\E i \in Attempts(n) : ~rf.calls[i].ok) =>
                LET occ == Occurrences(rf.fonts, n)
                IN  /\ Cardinality(Attempts(n)) = 1
                    /\ \A i \in Attempts(n) :
                          rf.calls[i].path = rf.fonts[Min(occ)].file_path
                    /\ Cardinality(Logged("warning", "duplicate", n))
                          = Cardinality(occ) - 1
                    /\ Cardinality(Logged("error", "failed", n)) = 1
                    /\ Logged("info", "registered", n) = {}
                    /\ font_table[n] = NoPath

\* The first spec of a name pointed to a deleted file and failed; the second
\* spec of that name points to a font that loads, and the name is not
\* registered.
C19_Witness ==
    /\ rf.state = "returned"
    /\ Len(rf.fonts) = 2
    /\ rf.fonts[1].name = rf.fonts[2].name
    /\ fs[rf.fonts[1].file_path] = "none"
    /\ TTFontLoads(fs, rf.fonts[2].file_path)
    /\ rf.calls = <<[name |-> rf.fonts[1].name, path |-> rf.fonts[1].file_path,
                     ok |-> FALSE]>>
    /\ font_table[rf.fonts[1].name] = NoPath

(* ----------------------------------------------------------------------- *)
(* Properties of build_pdf                                                 *)
(* ----------------------------------------------------------------------- *)
\* C16: when the engine renders the story build_pdf returns the configured
\* output path; when the engine raises, build_pdf raises one RuntimeError
\* whose message carries the output path and returns no path; and it
\* returns a path only after a rendering that succeeded.
C16_RenderOutcome ==
    /\ pdf.engine = "ok" =>
          /\ pdf.pc = "returned"
          /\ pdf.ret = pdf.config.output_path
          /\ pdf.exc = ""
    /\ pdf.engine = "raised" =>
          /\ pdf.pc = "raised"
          /\ pdf.exc = "RuntimeError"
          /\ pdf.message = pdf.config.output_path
          /\ pdf.ret = NoPath
    /\ pdf.ret # NoPath => pdf.engine = "ok"

\* The engine raised on a story with an image:
\* RuntimeError with the path.
C16_Witness ==
    /\ pdf.pc = "raised"
    /\ pdf.engine = "raised"
    /\ pdf.exc = "RuntimeError"
    /\ pdf.message = OutputPath
    /\ Len(pdf.story) = 5

\* A rendering that succeeded returned the path.
C16_Returned ==
    /\ pdf.pc = "returned"
    /\ pdf.ret = OutputPath

IsPrefix(s, t) == Len(s) <= Len(t) /\ \A i \in 1..Len(s) : s[i] = t[i]

\* A registration of the register_fonts step failed.
FontFailed == \E i \in 1..Len(rf.calls) : ~rf.calls[i].ok

\* C17: the steps a build_pdf call has performed are always the first ones
\* of: create the output directory, register the fonts, build the styles
\* with the Title and BodyText font overrides, assemble the story, invoke
\* the engine; so the engine is invoked only after font registration and
\* story assembly, and the story it gets was assembled with the styles that
\* were built.  Once register_fonts has returned, with or without a failed
\* registration, the call has not ended unless the engine was invoked: the
\* later steps are still ahead of it or were performed.
C17_StepOrder ==
    /\ IsPrefix(pdf.steps, PdfSteps)
    /\ pdf.engine # "" =>
          /\ SubSeq(pdf.steps, 1, 4)
                = <<"mkdir", "register_fonts", "make_styles", "build_story">>
          /\ rf.state = "returned" /\ rf.fonts = pdf.config.fonts
          /\ pdf.styles # NoSheet
          /\ pdf.story = build_story(heap, PdfStoryArgs(pdf)).ret
    /\ pdf.pc = "build_story" =>
          /\ pdf.styles = "clone"
          /\ \A n \in {"Title", "BodyText"} :
                LET font == IF n = "Title" THEN pdf.config.override_title_font
                            ELSE pdf.config.override_body_font
                IN  FontOverride(font) # <<>> =>
                       getattr(heap, heap.sheets[pdf.styles].byName[n], "fontName")
                          = VStr(font[1])
    /\ Len(pdf.steps) >= 2 =>
          /\ pdf.engine # "" \/ pdf.pc = PdfSteps[Len(pdf.steps) + 1]
          /\ pdf.pc \in {"returned", "raised"} <=> pdf.engine # ""

\* A call in which a font failed to register performed all five steps and
\* returned.
C17_Witness ==
    /\ pdf.pc = "returned"
    /\ pdf.steps = PdfSteps
    /\ FontFailed
    /\ \E i \in 1..Len(rf.calls) : rf.calls[i].ok
(* ----------------------------------------------------------------------- *)
(* Properties of scaled_image_flowable: the height bound                    *)
(* ----------------------------------------------------------------------- *)
\* x <= y on floats.
FLessEq(x, y) ==
    LET e0 == IF x.e < y.e THEN x.e ELSE y.e
    IN  x.m * Pow2(x.e - e0) <= y.m * Pow2(y.e - e0)

\* C21: an element that scaled_image_flowable returns is never higher than
\* max_height; without upscaling its height is the smaller of the natural
\* height and max_height, and with upscaling it is max_height, whatever the
\* natural height.
C21_HeightBound ==
    (ImgDone /\ img.ret # NoFlowable) =>
        /\ FLessEq(img.ret.height, FloatOfInt(img.max_height))
        /\ ~img.upscale =>
              img.ret.height = FloatOfInt(Min({img.file.ih, img.max_height}))
        /\ img.upscale => img.ret.height = FloatOfInt(img.max_height)

\* The cases C21 gets right: the factor is 1, or max_height is a multiple of
\* the natural height, or the natural height is max_height times a power of
\* two; the product ih * (max_height / ih) is then exact.
C21_ExactCases ==
    (/\ ImgDone /\ img.ret # NoFlowable
     /\ \/ C7_Factor = FloatOfInt(1)
        \/ img.max_height % img.file.ih = 0
        \/ (img.file.ih % img.max_height = 0
            /\ IsPow2(img.file.ih \div img.max_height))) =>
        /\ FLessEq(img.ret.height, FloatOfInt(img.max_height))
        /\ ~img.upscale =>
              img.ret.height = FloatOfInt(Min({img.file.ih, img.max_height}))
        /\ img.upscale => img.ret.height = FloatOfInt(img.max_height)

\* An element higher than max_height was returned.
C21_Exceeds ==
    /\ ImgDone /\ img.ret # NoFlowable
    /\ ~FLessEq(img.ret.height, FloatOfInt(img.max_height))

\* An image of exactly max_height, upscaled, came back max_height high.
C21_Equal ==
    /\ ImgDone /\ img.ret # NoFlowable
    /\ img.upscale /\ img.file.ih = img.max_height
    /\ img.ret.height = FloatOfInt(img.max_height)

(* ----------------------------------------------------------------------- *)
(* Properties of make_styles: a second application                          *)
(* ----------------------------------------------------------------------- *)
\* The call that applies the same override map, with the same flags, to the
\* collection the first call returned.
SecondApplication ==
    make_styles(heap, ms.ret, ms.overrides, ms.create_missing, ms.parent_for_new)

\* What a call logged when it assigned an attribute or created a style.
Changes(log) ==
    {i \in 1..Len(log) : log[i].what \in {"set", "created"}}

\* The second application returns a collection with the contents of the
\* first one's, having assigned nothing and created nothing.
SecondChangesNothing ==
    /\ ~SecondApplication.raised
    /\ SheetView(SecondApplication.heap, SecondApplication.ret) = SheetView(heap, ms.ret)
    /\ Changes(SecondApplication.log) = {}
    /\ \A n \in DOMAIN heap.sheets[ms.ret].byName :
          \A k \in DOMAIN heap.styles[heap.sheets[ms.ret].byName[n]].attrs :
              LET first == getattr(heap, heap.sheets[ms.ret].byName[n], k)
                  second == getattr(SecondApplication.heap,
                                    SecondApplication.heap.sheets[SecondApplication.ret].byName[n], k)
              IN  PyEq(first, second)

\* C22: when make_styles returns, applying the same override map to the
\* returned collection returns a collection equal to it, style by style and
\* attribute by attribute, and that second application assigns no attribute
\* and creates no style.
C22_Idempotent ==
    ms.state = "returned" => SecondChangesNothing

\* An accepted entry of the override map whose value is not equal to itself.
HasNaN ==
    \E i \in 1..Len(ms.overrides) :
        \E j \in 1..Len(ms.overrides[i].attrs) :
            /\ IsNaN(ms.overrides[i].attrs[j].value)
            /\ ms.overrides[i].style \in DOMAIN heap.sheets[ms.ret].byName

\* With no such entry the second application changes nothing.
C22_IdempotentOnNumbers ==
    (ms.state = "returned" /\ ~HasNaN) => SecondChangesNothing

\* The first application created Custom and assigned two attributes; the
\* second one created and assigned nothing.
C22_Repeated ==
    /\ ms.state = "returned"
    /\ ~HasNaN
    /\ Cardinality(Changes(ms.log)) = 3
    /\ StyleLogged("info", "created", "Custom", "")
    /\ SecondApplication.ret = "clone2"
    /\ SecondChangesNothing

\* The first application assigned a NaN and the second assigned it again.
C22_Reassigned ==
    /\ ms.state = "returned"
    /\ HasNaN
    /\ Changes(SecondApplication.log) # {}
    /\ SheetView(SecondApplication.heap, SecondApplication.ret) = SheetView(heap, ms.ret)

(* ----------------------------------------------------------------------- *)
(* Properties of build_pdf: the font overrides                              *)
(* ----------------------------------------------------------------------- *)
\* The configured override of the style n.
ConfiguredFont(n) ==
    IF n = "Title" THEN pdf.config.override_title_font
    ELSE pdf.config.override_body_font

\* The fontName of the style n in the collection build_pdf built.
BuiltFontName(n) ==
    getattr(heap, heap.sheets[pdf.styles].byName[n], "fontName")

\* The fontName the style n has in the sample stylesheet.
SampleFontName(n) ==
    IF n = "Title" THEN VStr(S_HelveticaBold) ELSE VStr(S_Helvetica)

\* The name is in the font table.
InFontTable(name) == name \in DOMAIN font_table /\ getFont(font_table, name)

\* C23: in the collection build_pdf builds, the font name of Title and of
\* BodyText is the configured override when there is one, whatever the font
\* table holds, and the sample stylesheet's own font name when the override
\* is None or empty.
C23_FontOverrides ==
    pdf.styles # NoSheet =>
        \A n \in {"Title", "BodyText"} :
            IF ConfiguredFont(n) # <<>> /\ ConfiguredFont(n)[1] # <<>>
            THEN BuiltFontName(n) = VStr(ConfiguredFont(n)[1])
            ELSE BuiltFontName(n) = SampleFontName(n)

\* Title was overridden with a name no configured font has, BodyText with
\* the name of a configured font whose registration failed; neither name is
\* in the font table and both styles have them.
C23_Witness ==
    /\ pdf.styles # NoSheet
    /\ pdf.config.override_title_font = <<S_NoSuchFont>>
    /\ \A i \in 1..Len(pdf.config.fonts) : pdf.config.fonts[i].name # S_NoSuchFont
    /\ pdf.config.override_body_font = <<N_Dummy>>
    /\ \E i \in 1..Len(rf.calls) : rf.calls[i].name = N_Dummy /\ ~rf.calls[i].ok
    /\ ~InFontTable(S_NoSuchFont) /\ ~InFontTable(N_Dummy)
    /\ BuiltFontName("Title") = VStr(S_NoSuchFont)
    /\ BuiltFontName("BodyText") = VStr(N_Dummy)

\* Title's override was the empty string and BodyText's None: both styles
\* have the fonts of the sample stylesheet.
C23_Defaults ==
    /\ pdf.styles # NoSheet
    /\ pdf.config.override_title_font = <<<<>>>>
    /\ pdf.config.override_body_font = <<>>
    /\ BuiltFontName("Title") = VStr(S_HelveticaBold)
    /\ BuiltFontName("BodyText") = VStr(S_Helvetica)

=============================================================================
